---- MODULE Spec2Model ----
(***************************************************************************)
(* A model of the Sourcetrail TypeScript indexer.                          *)
(*                                                                         *)
(*  - The persistence session (Indexing.open / Indexing.PerformIndexing of *)
(*    the Writer-based indexer, src/unnamed/part_000 lines 628-1169) with  *)
(*    its file registry, diagnostics pass and library-reference pass.      *)
(*  - The comment folder (recordAtomicSourceRangesForMultilineComments,    *)
(*    src/unnamed/part_000 lines 91-163).                                  *)
(*                                                                         *)
(* The store (package sourcetraildb) is not part of the repository: its    *)
(* operations are modelled from the interface the specification gives.     *)
(*                                                                         *)
(* Spec        the session against a store whose calls all succeed; the    *)
(*             front-end may make the library pass throw.                  *)
(* SpecFaulty  the same session against a store in which up to MaxFaults   *)
(*             calls fail.                                                 *)
(* SpecLib     the session, reliable store, over library files whose paths *)
(*             hold node_modules twice or as the last segment.             *)
(* SpecFold    the comment folder over every list of up to MaxComments     *)
(*             leading comments.                                           *)
(* SpecVisit   the traversal (visitTypeNodes of the builder-based indexer, *)
(*             src/unnamed/part_000 lines 228-487) over source files of up *)
(*             to MaxDecls declarations, with comments ahead of the first  *)
(*             token; SpecVisitLive adds that the next call is made.       *)
(* SpecRegistry  the file registry asked for one file by a path of up to   *)
(*             MaxPathLen characters and by its normalized form            *)
(*             (normalizePath of src/src/util/path.ts).                    *)
(* SpecPath    normalizePath and forEachAncestorDirectory of               *)
(*             src/src/util/path.ts on one path of up to MaxDirLen         *)
(*             characters; SpecPathLive adds that the loop goes on.        *)
(* SpecAction  onExecute of the two command-line actions                   *)
(*             (src/src/actions.ts) over the command lines.                *)
(* SpecProject Indexing.IndexProject (src/src/indexing_logic.ts) up to the *)
(*             call of PerformIndexing.                                    *)
(* SpecPass    the main pass of the builder-based PerformIndexing          *)
(*             (src/unnamed/part_000 lines 607-625): diagnostics, then per *)
(*             file registration, library references and traversal.        *)
(***************************************************************************)
EXTENDS Integers, Sequences, FiniteSets, TLC

VARIABLES
    pc,           \* position of the session in open / PerformIndexing
    clear,        \* the clear argument of PerformIndexing
    sourceFiles,  \* program.getSourceFiles(), in enumeration order
    libRefs,      \* libRefs[i]: the libReferenceDirectives of sourceFiles[i]
    diagnostics,  \* ts.getPreEmitDiagnostics(program)
    failAt,       \* the store calls (by number in the session) that fail
    sdb,          \* the store behind sdbWriter, with the log of calls made
    fileIds,      \* Indexing.fileIds, the memo map of the file registry
    lookups,      \* every getFileId call made: file name and returned id
    derived,      \* every sourceFileToModuleSymbolId call: file and returned id
    fileIndex,    \* position of the forEach over the source files
    threw,        \* an exception is propagating out of the block
    console,      \* lines written by console.log
    comments,     \* comment folder: the leading comment ranges of the node
    ci,           \* comment folder: index of the next comment of the loop
    firstSingleLineCommentStart,
    lastSingleLineCommentEnd,
    singleLineCommentCount,
    atomicRanges, \* comment folder: the recordAtomicSourceRange calls made
    fpc,          \* comment folder: "loop" or "done"
    tree,         \* traversal: the nodes of the source file, in pre-order
    pending,      \* traversal: the visitTypeNodes calls still to be made
    visited,      \* traversal: the nodes visited, in order
    built,        \* traversal: the symbols created through the writer
    usages,       \* traversal: the references created through the writer
    trace,        \* the passes made and the nodes visited, in order
    cmd,          \* command: the command line and what the file system holds
    cpc,          \* command: position in onExecute / IndexProject
    handed,       \* command: the arguments handed on, <<>> while none are
    stderr,       \* command: lines written by console.error
    exitStatus,   \* command: argument of ts.sys.exit, "" while running
    directory,    \* paths: the path given; `directory` of the ancestor loop
    ancestors,    \* paths: the arguments of the callback, in call order
    normalizations, \* paths: normalizePath of the path, then of each result
    apc           \* paths: position in the calls of the path functions

sessionVars == <<pc, clear, sourceFiles, libRefs, diagnostics, failAt, sdb,
                 fileIds, lookups, derived, fileIndex, threw, console>>
foldVars == <<comments, ci, firstSingleLineCommentStart,
              lastSingleLineCommentEnd, singleLineCommentCount, atomicRanges,
              fpc>>
visitVars == <<tree, pending, visited, built, usages, trace>>
cmdVars == <<cmd, cpc, handed, stderr, exitStatus>>
pathVars == <<directory, ancestors, normalizations, apc>>
vars == <<sessionVars, foldVars, visitVars, cmdVars, pathVars>>

---------------------------------------------------------------------------
(* Bounds of the model.                                                    *)
MaxRefs == 1        \* library-reference directives per source file
MaxDiags == 2       \* diagnostics of the program
MaxFaults == 1      \* failing store calls per session (SpecFaulty)
MaxComments == 4    \* leading comments of a node
MaxDecls == 2       \* top-level declarations of a traversed source file
MaxPathLen == 5     \* characters of a path given to the file registry
MaxDirLen == 4      \* characters of a path given to the path functions

---------------------------------------------------------------------------
(* The front-end's files.  A file name is its list of path segments.       *)
FA == <<"proj", "a.ts">>
FB == <<"proj", "b.ts">>
LD == <<"proj", "node_modules", "typescript", "lib.dom.d.ts">>
LE == <<"proj", "node_modules", "foo.d.ts">>
NoFile == <<>>      \* undefined: an unresolved library reference, or a
                    \* diagnostic with no file

getCurrentDirectory == <<"proj">>

LC(line, character) == [line |-> line, character |-> character]

\* ts.Node.getStart() / getEnd() of a source file, as line and character.
FileStart(f) == LC(0, 0)
FileEnd(f) ==
    CASE f = FA -> LC(3, 1)
      [] f = FB -> LC(5, 0)
      [] f = LD -> LC(9, 2)
      [] OTHER -> LC(1, 7)

\* The k-th library-reference directive of a file sits on line k-1.
RefPos(k) == LC(k - 1, 0)
RefEnd(k) == LC(k - 1, 28)

\* The text `<reference lib="${ref.fileName}" />` of a directive, by the file
\* it resolves to.
RefName(f) ==
    CASE f = LD -> "<reference lib=\"dom\" />"
      [] f = LE -> "<reference lib=\"foo\" />"
      [] OTHER -> "<reference lib=\"nonexistent\" />"

---------------------------------------------------------------------------
(* The store.                                                              *)
EmptyGraph ==
    [files |-> {}, languages |-> {}, symbols |-> {}, kinds |-> {},
     defKinds |-> {}, locations |-> {}, scopes |-> {}, references |-> {},
     referenceLocations |-> {}, errors |-> {}]

\* What an earlier session left in the database file.
OldGraph ==
    [EmptyGraph EXCEPT
        !.files = {[id |-> 1, path |-> <<"proj", "old.ts">>]},
        !.languages = {[id |-> 1, language |-> "typescript"]},
        !.symbols = {[id |-> 2, name |-> [sep |-> "/", elems |-> <<"old.ts">>]]},
        !.kinds = {[id |-> 2, kind |-> "MODULE"]},
        !.defKinds = {[id |-> 2, kind |-> "EXPLICIT"]}]

NewStore(g) ==
    [opened |-> FALSE, inTx |-> FALSE, content |-> g, committed |-> g,
     atOpen |-> g, nextId |-> 3, calls |-> <<>>, commits |-> <<>>]

\* The call about to be made succeeds: the store is open and the call is
\* not one of the failing ones.
Succeeds(st) == st.opened /\ (Len(st.calls) + 1) \notin failAt

\* The log of the calls made: operation, whether it succeeded, its (first)
\* argument and, for a call that returns an id, the id returned.
Log(st, op, ok, arg, id) ==
    [st EXCEPT !.calls = Append(@, [op |-> op, ok |-> ok, arg |-> arg,
                                    id |-> id])]

\* A write: outside a transaction the store commits each statement.
Put(st, g) ==
    [st EXCEPT !.content = g, !.committed = IF st.inTx THEN @ ELSE g]

Ret(st, ret) == [st |-> st, ret |-> ret]

StoreOpen(st) ==
    LET ok == ~st.opened /\ (Len(st.calls) + 1) \notin failAt
    IN  Ret(Log([st EXCEPT !.opened = @ \/ ok], "open", ok, <<>>, 0), ok)

StoreClose(st) ==
    LET ok == Succeeds(st)
    IN  Ret(Log(IF ok THEN [st EXCEPT !.opened = FALSE, !.inTx = FALSE,
                                      !.content = st.committed]
                      ELSE st, "close", ok, <<>>, 0), ok)

StoreBeginTransaction(st) ==
    LET ok == Succeeds(st) /\ ~st.inTx
    IN  Ret(Log(IF ok THEN [st EXCEPT !.inTx = TRUE] ELSE st,
                "beginTransaction", ok, <<>>, 0), ok)

StoreCommitTransaction(st) ==
    LET ok == Succeeds(st) /\ st.inTx
    IN  Ret(Log(IF ok THEN [st EXCEPT !.inTx = FALSE,
                                      !.committed = st.content,
                                      !.commits = Append(@, st.content)]
                      ELSE st, "commitTransaction", ok, <<>>, 0), ok)

StoreClear(st) ==
    LET ok == Succeeds(st)
    IN  Ret(Log(IF ok THEN Put(st, EmptyGraph) ELSE st, "clear", ok, <<>>, 0), ok)

StoreOptimizeDatabaseMemory(st) ==
    LET ok == Succeeds(st)
    IN  Ret(Log(st, "optimizeDatabaseMemory", ok, <<>>, 0), ok)

\* recordFile(path) -> id, 0 when it fails.
StoreRecordFile(st, path) ==
    LET ok == Succeeds(st)
        old == {r \in st.content.files : r.path = path}
        id == IF ~ok THEN 0
              ELSE IF old # {} THEN (CHOOSE r \in old : TRUE).id
              ELSE st.nextId
        g == [st.content EXCEPT !.files = @ \cup {[id |-> id, path |-> path]}]
    IN  Ret(Log(IF ok THEN [Put(st, g) EXCEPT
                               !.nextId = IF old = {} THEN @ + 1 ELSE @]
                      ELSE st, "recordFile", ok, path, id), id)

StoreRecordFileLanguage(st, id, language) ==
    LET ok == Succeeds(st) /\ \E r \in st.content.files : r.id = id
        g == [st.content EXCEPT !.languages =
                 {r \in @ : r.id # id} \cup {[id |-> id, language |-> language]}]
    IN  Ret(Log(IF ok THEN Put(st, g) ELSE st, "recordFileLanguage", ok, id, 0), ok)

\* recordSymbol(hierarchy) -> id, 0 when it fails: an upsert by hierarchy.
StoreRecordSymbol(st, name) ==
    LET ok == Succeeds(st)
        old == {r \in st.content.symbols : r.name = name}
        id == IF ~ok THEN 0
              ELSE IF old # {} THEN (CHOOSE r \in old : TRUE).id
              ELSE st.nextId
        g == [st.content EXCEPT !.symbols = @ \cup {[id |-> id, name |-> name]}]
    IN  Ret(Log(IF ok THEN [Put(st, g) EXCEPT
                               !.nextId = IF old = {} THEN @ + 1 ELSE @]
                      ELSE st, "recordSymbol", ok, name, id), id)

IsSymbol(st, id) == \E r \in st.content.symbols : r.id = id

StoreRecordSymbolDefinitionKind(st, id, kind) ==
    LET ok == Succeeds(st) /\ IsSymbol(st, id)
        g == [st.content EXCEPT !.defKinds =
                 {r \in @ : r.id # id} \cup {[id |-> id, kind |-> kind]}]
    IN  Ret(Log(IF ok THEN Put(st, g) ELSE st,
                "recordSymbolDefinitionKind", ok, id, 0), ok)

StoreRecordSymbolKind(st, id, kind) ==
    LET ok == Succeeds(st) /\ IsSymbol(st, id)
        g == [st.content EXCEPT !.kinds =
                 {r \in @ : r.id # id} \cup {[id |-> id, kind |-> kind]}]
    IN  Ret(Log(IF ok THEN Put(st, g) ELSE st, "recordSymbolKind", ok, id, 0), ok)

StoreRecordSymbolLocation(st, id, range) ==
    LET ok == Succeeds(st) /\ IsSymbol(st, id)
        g == [st.content EXCEPT !.locations = @ \cup {[id |-> id, range |-> range]}]
    IN  Ret(Log(IF ok THEN Put(st, g) ELSE st,
                "recordSymbolLocation", ok, range, 0), ok)

StoreRecordSymbolScopeLocation(st, id, range) ==
    LET ok == Succeeds(st) /\ IsSymbol(st, id)
        g == [st.content EXCEPT !.scopes = @ \cup {[id |-> id, range |-> range]}]
    IN  Ret(Log(IF ok THEN Put(st, g) ELSE st,
                "recordSymbolScopeLocation", ok, range, 0), ok)

\* recordReference(from, to, kind) -> id, 0 when it fails; every call is a
\* new edge.
StoreRecordReference(st, from, to, kind) ==
    LET ok == Succeeds(st) /\ IsSymbol(st, from) /\ IsSymbol(st, to)
        id == IF ok THEN st.nextId ELSE 0
        g == [st.content EXCEPT !.references =
                 @ \cup {[id |-> id, from |-> from, to |-> to, kind |-> kind]}]
    IN  Ret(Log(IF ok THEN [Put(st, g) EXCEPT !.nextId = @ + 1] ELSE st,
                "recordReference", ok, <<from, to>>, id), id)

StoreRecordReferenceLocation(st, id, range) ==
    LET ok == Succeeds(st) /\ \E r \in st.content.references : r.id = id
        g == [st.content EXCEPT !.referenceLocations =
                 @ \cup {[id |-> id, range |-> range]}]
    IN  Ret(Log(IF ok THEN Put(st, g) ELSE st,
                "recordReferenceLocation", ok, range, 0), ok)

StoreRecordError(st, message, fatal, range) ==
    LET ok == Succeeds(st)
        g == [st.content EXCEPT !.errors =
                 @ \cup {[message |-> message, fatal |-> fatal, range |-> range]}]
    IN  Ret(Log(IF ok THEN Put(st, g) ELSE st, "recordError", ok, range, 0), ok)

---------------------------------------------------------------------------
(* The indexer.  Its methods thread the environment                        *)
(*   e = [sdb, fileIds, lookups, derived, threw, console]                  *)
(* and return [e |-> the environment after the call, ret |-> its result].  *)
(* `new Error(...)` without `throw` builds an object and drops it: the     *)
(* checks of the store's results change nothing.                           *)
Out(e, ret) == [e |-> e, ret |-> ret]

\* const r = <call>; <rest>: the result of a call, named for the statements
\* that follow it.
Bind(r, Rest(_)) == Rest(r)

\* getFileId without `this.fileIds.set(file.fileName, fileId)`.
getFileId_NoMemo(e, file) ==
    IF file = NoFile THEN [e |-> [e EXCEPT !.threw = TRUE], ret |-> 0]
    ELSE IF file \in DOMAIN e.fileIds
    THEN [e |-> [e EXCEPT !.lookups = Append(@, [file |-> file,
                                                  id |-> e.fileIds[file]])],
          ret |-> e.fileIds[file]]
    ELSE
    Bind(StoreRecordFile(e.sdb, file), LAMBDA r1 :
    Bind(StoreRecordFileLanguage(r1.st, r1.ret, "typescript"), LAMBDA r2 :
        [e |-> [e EXCEPT !.sdb = r2.st,
                         !.lookups = Append(@, [file |-> file, id |-> r1.ret])],
         ret |-> r1.ret]))

\* Indexing.getFileId.  Reading file.fileName of an unresolved (undefined)
\* file throws a TypeError.
getFileId(e, file) ==
    IF file = NoFile THEN Out([e EXCEPT !.threw = TRUE], 0)
    ELSE IF file \in DOMAIN e.fileIds
    THEN Out([e EXCEPT !.lookups = Append(@, [file |-> file,
                                               id |-> e.fileIds[file]])],
             e.fileIds[file])
    ELSE
    Bind(StoreRecordFile(e.sdb, file), LAMBDA r1 :
    Bind(StoreRecordFileLanguage(r1.st, r1.ret, "typescript"), LAMBDA r2 :
        Out([e EXCEPT !.sdb = r2.st,
                      !.fileIds = (file :> r1.ret) @@ @,
                      !.lookups = Append(@, [file |-> file, id |-> r1.ret])],
            r1.ret)))

\* Indexing.toSourceRange of the Writer-based indexer.
Indexing_toSourceRange(fileId, start, end) ==
    <<fileId, start.line + 1, start.character, end.line + 1, end.character + 1>>

\* Indexing.nodeToSourceRange, for the node of a whole source file.
Indexing_nodeToSourceRange(sf, fileId) ==
    Indexing_toSourceRange(fileId, FileStart(sf), FileEnd(sf))

\* Indexing.libReferenceToSourceRange, for the k-th directive of sf.
Indexing_libReferenceToSourceRange(k, sf, fileId) ==
    Indexing_toSourceRange(fileId, RefPos(k), RefEnd(k))

NameHierarchy(sep, elems) == [sep |-> sep, elems |-> elems]

\* Indexing.recordPackage.
recordPackage(e, name) ==
    Bind(StoreRecordSymbol(e.sdb, name), LAMBDA r1 :
    Bind(StoreRecordSymbolDefinitionKind(r1.st, r1.ret, "EXPLICIT"), LAMBDA r2 :
    Bind(StoreRecordSymbolKind(r2.st, r1.ret, "PACKAGE"), LAMBDA r3 :
        Out([e EXCEPT !.sdb = r3.st], r1.ret))))

\* Indexing.recordModule.
recordModule(e, name, sf, sfFileId) ==
    Bind(StoreRecordSymbol(e.sdb, name), LAMBDA r1 :
    Bind(StoreRecordSymbolDefinitionKind(r1.st, r1.ret, "EXPLICIT"), LAMBDA r2 :
    Bind(StoreRecordSymbolKind(r2.st, r1.ret, "MODULE"), LAMBDA r3 :
    Bind(StoreRecordSymbolScopeLocation(
             r3.st, r1.ret, Indexing_nodeToSourceRange(sf, sfFileId)), LAMBDA r4 :
        Out([e EXCEPT !.sdb = r4.st], r1.ret)))))

\* path.relative(from, to).split(path.sep), on lists of segments.
RECURSIVE CommonPrefix(_, _)
CommonPrefix(a, b) ==
    IF a = <<>> \/ b = <<>> \/ Head(a) # Head(b) THEN 0
    ELSE 1 + CommonPrefix(Tail(a), Tail(b))

PathRelativeSplit(from, to) ==
    LET c == CommonPrefix(from, to)
        up == [i \in 1..(Len(from) - c) |-> ".."]
        rel == up \o SubSeq(to, c + 1, Len(to))
    IN  IF rel = <<>> THEN <<"">> ELSE rel

\* Array.prototype.slice(i, i + 2), i counted from 1.
Slice2(parts, i) ==
    SubSeq(parts, i, IF i + 1 <= Len(parts) THEN i + 1 ELSE Len(parts))

\* The loop of sourceFileToModuleSymbolId over filenameParts, from index i.
RECURSIVE PackageLoop(_, _, _, _)
PackageLoop(e, filenameParts, symbolId, i) ==
    IF i > Len(filenameParts) THEN e
    ELSE IF filenameParts[i] = "node_modules"
    THEN
    Bind(recordPackage(e, NameHierarchy("/", Slice2(filenameParts, i))), LAMBDA p :
    Bind(StoreRecordReference(p.e.sdb, p.ret, symbolId, "INCLUDE"), LAMBDA r :
        PackageLoop([p.e EXCEPT !.sdb = r.st], filenameParts, symbolId, i + 1)))
    ELSE PackageLoop(e, filenameParts, symbolId, i + 1)

ModuleName(sf) == NameHierarchy("/", PathRelativeSplit(getCurrentDirectory, sf))

\* sourceFileToModuleSymbolId naming the module symbol per call site: the
\* hierarchy depends on the file the caller passes.
sourceFileToModuleSymbolId_PerCallSite(e, sf, sfFileId) ==
    Bind(recordModule(
             e, NameHierarchy("/", ModuleName(sf).elems \o <<ToString(sfFileId)>>),
             sf, sfFileId), LAMBDA m :
    Bind(PackageLoop(m.e, ModuleName(sf).elems, m.ret, 1), LAMBDA e2 :
        Out([e2 EXCEPT !.derived = Append(@, [file |-> sf, id |-> m.ret])],
            m.ret)))

\* Indexing.sourceFileToModuleSymbolId.
sourceFileToModuleSymbolId(e, sf, sfFileId) ==
    Bind(recordModule(e, ModuleName(sf), sf, sfFileId), LAMBDA m :
    Bind(PackageLoop(m.e, ModuleName(sf).elems, m.ret, 1), LAMBDA e2 :
        Out([e2 EXCEPT !.derived = Append(@, [file |-> sf, id |-> m.ret])],
            m.ret)))

\* The forEach body of addCurrentFile with the INCLUDE reference directed
\* from the module symbol to the macro symbol.
LibReferenceSymbols_Reversed(e, sf, fileId, k, refSourceFile) ==
    Bind(sourceFileToModuleSymbolId(e, refSourceFile, fileId), LAMBDA m :
    Bind(StoreRecordSymbol(
             m.e.sdb, NameHierarchy("", <<RefName(refSourceFile)>>)), LAMBDA r1 :
    Bind(StoreRecordSymbolDefinitionKind(r1.st, r1.ret, "EXPLICIT"), LAMBDA r2 :
    Bind(StoreRecordSymbolKind(r2.st, r1.ret, "MACRO"), LAMBDA r3 :
    Bind(StoreRecordSymbolLocation(
             r3.st, r1.ret,
             Indexing_libReferenceToSourceRange(k, sf, fileId)), LAMBDA r4 :
    Bind(StoreRecordReference(r4.st, m.ret, r1.ret, "INCLUDE"), LAMBDA r5 :
    Bind(StoreRecordReferenceLocation(
             r5.st, r5.ret,
             Indexing_libReferenceToSourceRange(k, sf, fileId)), LAMBDA r6 :
        [m.e EXCEPT !.sdb = r6.st])))))))

\* The statements of the forEach of addCurrentFile that follow getFileId,
\* for the k-th directive, which resolves to refSourceFile.
LibReferenceSymbols(e, sf, fileId, k, refSourceFile) ==
    Bind(sourceFileToModuleSymbolId(e, refSourceFile, fileId), LAMBDA m :
    Bind(StoreRecordSymbol(
             m.e.sdb, NameHierarchy("", <<RefName(refSourceFile)>>)), LAMBDA r1 :
    Bind(StoreRecordSymbolDefinitionKind(r1.st, r1.ret, "EXPLICIT"), LAMBDA r2 :
    Bind(StoreRecordSymbolKind(r2.st, r1.ret, "MACRO"), LAMBDA r3 :
    Bind(StoreRecordSymbolLocation(
             r3.st, r1.ret,
             Indexing_libReferenceToSourceRange(k, sf, fileId)), LAMBDA r4 :
    Bind(StoreRecordReference(r4.st, r1.ret, m.ret, "INCLUDE"), LAMBDA r5 :
    Bind(StoreRecordReferenceLocation(
             r5.st, r5.ret,
             Indexing_libReferenceToSourceRange(k, sf, fileId)), LAMBDA r6 :
        [m.e EXCEPT !.sdb = r6.st])))))))

\* The body of the forEach of addCurrentFile.
LibReference(e, sf, fileId, k, refSourceFile) ==
    Bind(getFileId(e, refSourceFile), LAMBDA f :
        IF f.e.threw THEN f.e
        ELSE LibReferenceSymbols(f.e, sf, fileId, k, refSourceFile))

RECURSIVE LibReferenceLoop(_, _, _, _, _)
LibReferenceLoop(e, sf, fileId, refs, k) ==
    IF k > Len(refs) \/ e.threw THEN e
    ELSE LibReferenceLoop(LibReference(e, sf, fileId, k, refs[k]),
                          sf, fileId, refs, k + 1)

\* Indexing.addCurrentFile.
addCurrentFile(e, sf, refs) ==
    Bind(getFileId(e, sf), LAMBDA f :
        IF f.e.threw THEN f.e
        ELSE LibReferenceLoop(f.e, sf, f.ret, refs, 1))

\* ts.flattenDiagnosticMessageText(messageText, newLine): the texts of a
\* message chain, each after the first on a line of its own, indented by two
\* spaces per level.
RECURSIVE FlattenChain(_, _, _)
FlattenChain(chain, newLine, indent) ==
    IF chain = <<>> THEN ""
    ELSE (IF indent = 0 THEN ""
          ELSE newLine \o FlattenChain([i \in 1..indent |-> "  "], "", 0))
         \o Head(chain) \o FlattenChain(Tail(chain), newLine, indent + 1)

flattenDiagnosticMessageText(messageText, newLine) ==
    FlattenChain(messageText, newLine, 0)

\* The forEach body of addDiagnostics without the console.log.
Diagnostic_NoLog(e, d) ==
    IF d.file = NoFile
    THEN e
    ELSE
    Bind(getFileId(e, d.file), LAMBDA f :
    Bind(StoreRecordError(
             f.e.sdb, flattenDiagnosticMessageText(d.messageText, "\n"), FALSE,
             <<f.ret, d.start.line + 1, d.start.character + 1,
               d.end.line + 1, d.end.character + 1>>), LAMBDA r :
        [f.e EXCEPT !.sdb = r.st]))

\* The body of the forEach of addDiagnostics.
Diagnostic(e, d) ==
    IF d.file = NoFile
    THEN [e EXCEPT !.console =
             Append(@, flattenDiagnosticMessageText(d.messageText, "\n"))]
    ELSE
    Bind(getFileId(e, d.file), LAMBDA f :
    Bind(StoreRecordError(
             f.e.sdb, flattenDiagnosticMessageText(d.messageText, "\n"), FALSE,
             <<f.ret, d.start.line + 1, d.start.character + 1,
               d.end.line + 1, d.end.character + 1>>), LAMBDA r :
        [f.e EXCEPT !.sdb = r.st]))

RECURSIVE DiagnosticLoop(_, _, _)
DiagnosticLoop(e, ds, k) ==
    IF k > Len(ds) \/ e.threw THEN e
    ELSE DiagnosticLoop(Diagnostic(e, ds[k]), ds, k + 1)

\* Indexing.addDiagnostics.
addDiagnostics(e) == DiagnosticLoop(e, diagnostics, 1)

---------------------------------------------------------------------------
(* The session: Indexing.open around the block of PerformIndexing, one     *)
(* action per statement.                                                   *)
Env ==
    [sdb |-> sdb, fileIds |-> fileIds, lookups |-> lookups,
     derived |-> derived, threw |-> threw, console |-> console]

Becomes(e) ==
    /\ sdb' = e.sdb
    /\ fileIds' = e.fileIds
    /\ lookups' = e.lookups
    /\ derived' = e.derived
    /\ threw' = e.threw
    /\ console' = e.console

Inputs == <<clear, sourceFiles, libRefs, diagnostics, failAt>>

\* The block with the first commit ahead of clear.
NextStatement_CommitBeforeClear(p) ==
    CASE p = "beginTransaction1" -> "commitTransaction1"
      [] p = "commitTransaction1" -> "clear"
      [] p = "clear" -> "optimize1"
      [] p = "optimize1" -> "beginTransaction2"
      [] p = "beginTransaction2" -> "addDiagnostics"
      [] p = "addDiagnostics" -> "forEach"
      [] p = "forEach" -> "commitTransaction2"
      [] p = "commitTransaction2" -> "optimize2"
      [] p = "optimize2" -> "finally"

\* The block with clear inside the main transaction.
NextStatement_ClearInMain(p) ==
    CASE p = "beginTransaction1" -> "commitTransaction1"
      [] p = "commitTransaction1" -> "optimize1"
      [] p = "optimize1" -> "beginTransaction2"
      [] p = "beginTransaction2" -> "clear"
      [] p = "clear" -> "addDiagnostics"
      [] p = "addDiagnostics" -> "forEach"
      [] p = "forEach" -> "commitTransaction2"
      [] p = "commitTransaction2" -> "optimize2"
      [] p = "optimize2" -> "finally"

\* The statements of the block of PerformIndexing, in program order.
NextStatement(p) ==
    CASE p = "beginTransaction1" -> "clear"
      [] p = "clear" -> "commitTransaction1"
      [] p = "commitTransaction1" -> "optimize1"
      [] p = "optimize1" -> "beginTransaction2"
      [] p = "beginTransaction2" -> "addDiagnostics"
      [] p = "addDiagnostics" -> "forEach"
      [] p = "forEach" -> "commitTransaction2"
      [] p = "commitTransaction2" -> "optimize2"
      [] p = "optimize2" -> "finally"

\* Indexing.open without the finally: an exception leaves without close.
AfterStatement_NoFinally(p, thrown) ==
    IF thrown THEN "done" ELSE NextStatement(p)

\* Indexing.open: try { block() } finally { close() }.  Where the session
\* goes after statement p of the block, which threw or did not.
AfterStatement(p, thrown) == IF thrown THEN "finally" ELSE NextStatement(p)

\* Indexing.open, up to the call of the block: the result of open is
\* checked, the error is built and dropped, and the block runs.
Open ==
    /\ pc = "open"
    /\ Becomes([Env EXCEPT !.sdb = StoreOpen(sdb).st])
    /\ pc' = "beginTransaction1"
    /\ UNCHANGED <<Inputs, fileIndex, foldVars, visitVars, cmdVars,
                   pathVars>>

BeginClearTransaction ==
    /\ pc = "beginTransaction1"
    /\ Becomes([Env EXCEPT !.sdb = StoreBeginTransaction(sdb).st])
    /\ pc' = AfterStatement(pc, FALSE)
    /\ UNCHANGED <<Inputs, fileIndex, foldVars, visitVars, cmdVars,
                   pathVars>>

\* if (clear) { clear() }
ClearIfRequested(st) == IF clear THEN StoreClear(st).st ELSE st

Clear ==
    /\ pc = "clear"
    /\ Becomes([Env EXCEPT !.sdb = ClearIfRequested(sdb)])
    /\ pc' = AfterStatement(pc, FALSE)
    /\ UNCHANGED <<Inputs, fileIndex, foldVars, visitVars, cmdVars,
                   pathVars>>

CommitClearTransaction ==
    /\ pc = "commitTransaction1"
    /\ Becomes([Env EXCEPT !.sdb = StoreCommitTransaction(sdb).st])
    /\ pc' = AfterStatement(pc, FALSE)
    /\ UNCHANGED <<Inputs, fileIndex, foldVars, visitVars, cmdVars,
                   pathVars>>

OptimizeAfterClear ==
    /\ pc = "optimize1"
    /\ Becomes([Env EXCEPT !.sdb = StoreOptimizeDatabaseMemory(sdb).st])
    /\ pc' = AfterStatement(pc, FALSE)
    /\ UNCHANGED <<Inputs, fileIndex, foldVars, visitVars, cmdVars,
                   pathVars>>

BeginMainTransaction ==
    /\ pc = "beginTransaction2"
    /\ Becomes([Env EXCEPT !.sdb = StoreBeginTransaction(sdb).st])
    /\ pc' = AfterStatement(pc, FALSE)
    /\ UNCHANGED <<Inputs, fileIndex, foldVars, visitVars, cmdVars,
                   pathVars>>

AddDiagnostics ==
    /\ pc = "addDiagnostics"
    /\ Becomes(addDiagnostics(Env))
    /\ pc' = AfterStatement(pc, threw')
    /\ UNCHANGED <<Inputs, fileIndex, foldVars, visitVars, cmdVars,
                   pathVars>>

\* One round of program.getSourceFiles().forEach(sf => addCurrentFile(sf)).
AddCurrentFile ==
    /\ pc = "forEach"
    /\ Becomes(addCurrentFile(Env, sourceFiles[fileIndex], libRefs[fileIndex]))
    /\ pc' = IF threw' \/ fileIndex = Len(sourceFiles)
             THEN AfterStatement(pc, threw')
             ELSE pc
    /\ fileIndex' = fileIndex + 1
    /\ UNCHANGED <<Inputs, foldVars, visitVars, cmdVars,
                   pathVars>>

CommitMainTransaction ==
    /\ pc = "commitTransaction2"
    /\ Becomes([Env EXCEPT !.sdb = StoreCommitTransaction(sdb).st])
    /\ pc' = AfterStatement(pc, FALSE)
    /\ UNCHANGED <<Inputs, fileIndex, foldVars, visitVars, cmdVars,
                   pathVars>>

OptimizeAfterMain ==
    /\ pc = "optimize2"
    /\ Becomes([Env EXCEPT !.sdb = StoreOptimizeDatabaseMemory(sdb).st])
    /\ pc' = AfterStatement(pc, FALSE)
    /\ UNCHANGED <<Inputs, fileIndex, foldVars, visitVars, cmdVars,
                   pathVars>>

\* The finally block of Indexing.open; an exception of the block then
\* leaves PerformIndexing.
Close ==
    /\ pc = "finally"
    /\ Becomes([Env EXCEPT !.sdb = StoreClose(sdb).st])
    /\ pc' = "done"
    /\ UNCHANGED <<Inputs, fileIndex, foldVars, visitVars, cmdVars,
                   pathVars>>

---------------------------------------------------------------------------
(* Initial states.                                                         *)
SeqsUpTo(S, n) == UNION {[1..k -> S] : k \in 0..n}

RefTargets == {LD, LE, NoFile}

DiagnosticKinds ==
    {[file |-> NoFile, messageText |-> <<"no file">>,
      start |-> LC(0, 0), end |-> LC(0, 0)],
     [file |-> FA, messageText |-> <<"in a.ts", "detail">>,
      start |-> LC(1, 2), end |-> LC(1, 6)]}

\* An upper bound of the number of store calls of a session.
MaxCalls == 9 + 3 * MaxDiags + 2 * (2 + 16 * MaxRefs)

RECURSIVE FaultSets(_)
FaultSets(k) ==
    IF k = 0 THEN {{}}
    ELSE LET S == FaultSets(k - 1)
         IN  S \cup {s \cup {c} : s \in S, c \in 1..MaxCalls}

\* No command runs.
InitNoPath ==
    /\ directory = <<>>
    /\ ancestors = <<>>
    /\ normalizations = <<>>
    /\ apc = "idle"

InitNoCommand ==
    /\ cmd = <<>>
    /\ cpc = "idle"
    /\ handed = <<>>
    /\ stderr = <<>>
    /\ exitStatus = ""

\* No traversal runs.
InitNoVisit ==
    /\ tree = <<>>
    /\ pending = <<>>
    /\ visited = <<>>
    /\ built = <<>>
    /\ usages = <<>>
    /\ trace = <<>>

InitFold ==
    /\ comments = <<>>
    /\ ci = 1
    /\ firstSingleLineCommentStart = -1
    /\ lastSingleLineCommentEnd = -1
    /\ singleLineCommentCount = 0
    /\ atomicRanges = <<>>
    /\ fpc = "idle"

InitSession ==
    /\ pc = "open"
    /\ clear \in BOOLEAN
    /\ sourceFiles \in {<<FA>>, <<FA, FB>>}
    /\ libRefs \in [1..Len(sourceFiles) -> SeqsUpTo(RefTargets, MaxRefs)]
    /\ diagnostics \in SeqsUpTo(DiagnosticKinds, MaxDiags)
    /\ sdb \in {NewStore(EmptyGraph), NewStore(OldGraph)}
    /\ fileIds = <<>>
    /\ lookups = <<>>
    /\ derived = <<>>
    /\ fileIndex = 1
    /\ threw = FALSE
    /\ console = <<>>

Init ==
    /\ InitSession /\ failAt = {} /\ InitFold /\ InitNoVisit /\ InitNoCommand
    /\ InitNoPath

InitFaulty ==
    /\ InitSession /\ failAt \in FaultSets(MaxFaults)
    /\ InitFold /\ InitNoVisit /\ InitNoCommand
    /\ InitNoPath

Next ==
    \/ Open
    \/ BeginClearTransaction
    \/ Clear
    \/ CommitClearTransaction
    \/ OptimizeAfterClear
    \/ BeginMainTransaction
    \/ AddDiagnostics
    \/ AddCurrentFile
    \/ CommitMainTransaction
    \/ OptimizeAfterMain
    \/ Close

Spec == Init /\ [][Next]_vars

SpecFaulty == InitFaulty /\ [][Next]_vars

\* Library files whose paths hold the dependency-directory marker twice, and
\* as the last segment.
LN == <<"proj", "node_modules", "a", "node_modules", "b", "x.d.ts">>
LM == <<"proj", "vendor", "node_modules">>

LibTargets == {LD, LE, LN, LM}

\* The session over these library files, with no diagnostics and an empty
\* database file.
InitLib ==
    /\ pc = "open"
    /\ clear \in BOOLEAN
    /\ sourceFiles \in {<<FA>>, <<FA, FB>>}
    /\ libRefs \in [1..Len(sourceFiles) -> SeqsUpTo(LibTargets, MaxRefs)]
    /\ diagnostics = <<>>
    /\ sdb = NewStore(EmptyGraph)
    /\ fileIds = <<>>
    /\ lookups = <<>>
    /\ derived = <<>>
    /\ fileIndex = 1
    /\ threw = FALSE
    /\ console = <<>>
    /\ failAt = {}
    /\ InitFold
    /\ InitNoVisit
    /\ InitNoPath
    /\ InitNoCommand

SpecLib == InitLib /\ [][Next]_vars

---------------------------------------------------------------------------
(* Properties of the session.                                              *)
Calls == sdb.calls

RecordOps ==
    {"recordFile", "recordFileLanguage", "recordSymbol",
     "recordSymbolDefinitionKind", "recordSymbolKind", "recordSymbolLocation",
     "recordSymbolScopeLocation", "recordReference",
     "recordReferenceLocation", "recordError"}

IsRecordCall(c) == c.op \in RecordOps

CallsOf(op) == {i \in DOMAIN Calls : Calls[i].op = op}

\* The session-level calls (open, transactions, clear, optimize, close), in
\* order, with the record calls of the indexing work left out.
SessionCalls ==
    LET s == SelectSeq(Calls, LAMBDA c : ~IsRecordCall(c))
    IN  [i \in 1..Len(s) |-> s[i].op]

IsPrefix(a, b) == Len(a) <= Len(b) /\ SubSeq(b, 1, Len(a)) = a

\* C1: while the session is open, all recordSymbol calls for one hierarchy
\* returned one and the same valid id, the store holds exactly one symbol
\* for the hierarchy, with exactly one kind row and exactly one
\* definition-kind row, and every derivation of the module symbol of one
\* file (a library file referenced from two files) returned the same id.
C1_SymbolUpsert ==
    sdb.opened =>
        /\ \A i \in CallsOf("recordSymbol") :
              /\ Calls[i].id # 0
              /\ \A j \in CallsOf("recordSymbol") :
                    Calls[i].arg = Calls[j].arg => Calls[i].id = Calls[j].id
              /\ Cardinality({r \in sdb.content.symbols :
                                 r.name = Calls[i].arg}) = 1
              /\ Cardinality({r \in sdb.content.kinds :
                                 r.id = Calls[i].id}) = 1
              /\ Cardinality({r \in sdb.content.defKinds :
                                 r.id = Calls[i].id}) = 1
        /\ \A i, j \in DOMAIN derived :
              derived[i].file = derived[j].file => derived[i].id = derived[j].id

\* C1 witness: the module symbol of lib.dom.d.ts was derived for the
\* directives of two different files, with one id.
C1_Witness ==
    /\ sdb.opened
    /\ Len(sourceFiles) = 2
    /\ libRefs[1] = <<LD>> /\ libRefs[2] = <<LD>>
    /\ Len(derived) = 2
    /\ derived[1].id = derived[2].id /\ derived[1].id # 0
    /\ Cardinality({i \in CallsOf("recordSymbol") :
                       Calls[i].arg = ModuleName(LD)}) = 2

\* C2: all lookups of one file returned the same identity, the store was
\* asked at most once per path to create the file and at most once per file
\* to tag its language, and every lookup ever answered is still what the
\* memo map holds (no entry was replaced or removed).
C2_FileRegistry ==
    /\ \A i, j \in DOMAIN lookups :
          lookups[i].file = lookups[j].file => lookups[i].id = lookups[j].id
    /\ \A i, j \in CallsOf("recordFile") :
          Calls[i].arg = Calls[j].arg => i = j
    /\ \A i, j \in CallsOf("recordFileLanguage") :
          Calls[i].arg = Calls[j].arg => i = j
    /\ \A i \in DOMAIN lookups :
          /\ lookups[i].file \in DOMAIN fileIds
          /\ fileIds[lookups[i].file] = lookups[i].id

\* C2 witness: a.ts was looked up by the diagnostics pass and again by
\* addCurrentFile, and created once.
C2_Witness ==
    /\ Cardinality({i \in DOMAIN lookups : lookups[i].file = FA}) >= 2
    /\ Cardinality({i \in CallsOf("recordFile") : Calls[i].arg = FA}) = 1

\* The order of the session-level calls as the code makes them: the first
\* transaction is begun, committed and optimized whether or not clear is
\* requested; an exception of the indexing work skips the second commit
\* and optimize.
SessionOrder ==
    <<"open", "beginTransaction">>
    \o (IF clear THEN <<"clear">> ELSE <<>>)
    \o <<"commitTransaction", "optimizeDatabaseMemory", "beginTransaction">>
    \o (IF threw THEN <<>>
        ELSE <<"commitTransaction", "optimizeDatabaseMemory">>)
    \o <<"close">>

\* The order the claim gives: the first transaction only when clear is
\* requested.
ClaimedOrder ==
    <<"open">>
    \o (IF clear
        THEN <<"beginTransaction", "clear", "commitTransaction",
               "optimizeDatabaseMemory">>
        ELSE <<>>)
    \o <<"beginTransaction", "commitTransaction", "optimizeDatabaseMemory",
         "close">>

\* Every record call comes after the n-th session-level call and before
\* the next one.
RecordCallsAfter(n) ==
    \A i \in DOMAIN Calls :
        IsRecordCall(Calls[i]) =>
            Cardinality({j \in 1..i : ~IsRecordCall(Calls[j])}) = n

C4_CloseOnce ==
    /\ Cardinality(CallsOf("close")) <= 1
    /\ (pc # "done" => CallsOf("close") = {})
    /\ (pc = "done" /\ Calls[1].op = "open" /\ Calls[1].ok) =>
           Cardinality(CallsOf("close")) = 1

\* C4 witness: the indexing work threw part-way through, after recording a
\* file, and the session ended with one close.
C4_Witness ==
    /\ pc = "done" /\ threw
    /\ CallsOf("recordFile") # {}
    /\ Cardinality(CallsOf("close")) = 1
    /\ Calls[Len(Calls)].op = "close"

\* The second beginTransaction of the session succeeded: the main
\* transaction has begun.
MainBegun ==
    \E i, j \in CallsOf("beginTransaction") : i < j /\ Calls[j].ok

MainBegin == CHOOSE j \in CallsOf("beginTransaction") :
                 \E i \in CallsOf("beginTransaction") : i < j

\* The indexing work failed: it threw, or one of its record calls failed.
WorkFailed == threw \/ \E i \in DOMAIN Calls : IsRecordCall(Calls[i]) /\ ~Calls[i].ok

\* The main transaction was committed.
MainCommitted ==
    \E i \in CallsOf("commitTransaction") : i > MainBegin /\ Calls[i].ok

\* C5: when the indexing work has failed after the main transaction has
\* begun, the main transaction is not committed, and the committed content
\* of the ended session is the content of the previous commit.
C5_FailedWorkNotCommitted ==
    (MainBegun /\ WorkFailed) =>
        /\ ~MainCommitted
        /\ (pc = "done" /\ sdb.commits # <<>>) => sdb.committed = sdb.commits[1]

FatalOps ==
    {"recordSymbol", "recordSymbolDefinitionKind", "recordSymbolKind",
     "recordSymbolLocation", "recordSymbolScopeLocation", "recordReference",
     "recordReferenceLocation", "recordError"}

\* C7: after a failed record call no further record call is made and no
\* commit follows.
C7_RecordFailureFatal ==
    \A i \in DOMAIN Calls :
        (Calls[i].op \in FatalOps /\ ~Calls[i].ok) =>
            \A j \in DOMAIN Calls :
                j > i => /\ ~IsRecordCall(Calls[j])
                         /\ Calls[j].op # "commitTransaction"

\* C8: when open fails, no transaction is begun, no clear is issued and
\* nothing is recorded.
C8_OpenFailureAborts ==
    (Calls # <<>> /\ Calls[1].op = "open" /\ ~Calls[1].ok) =>
        \A j \in DOMAIN Calls :
            /\ Calls[j].op \notin {"beginTransaction", "clear"}
            /\ ~IsRecordCall(Calls[j])

---------------------------------------------------------------------------
(* The comment folder: recordAtomicSourceRangesForMultilineComments.       *)
(* `comments` holds the texts of the leading comments of a node, one per   *)
(* line of the source text; a text is its list of characters.              *)
Chars(str) ==
    CASE str = "// a" -> <<"/", "/", " ", "a">>
      [] str = "// b" -> <<"/", "/", " ", "b">>
      [] str = "// #region" ->
            <<"/", "/", " ", "#", "r", "e", "g", "i", "o", "n">>
      [] str = "// #endregion" ->
            <<"/", "/", " ", "#", "e", "n", "d", "r", "e", "g", "i", "o", "n">>
      [] str = "//#region x" ->
            <<"/", "/", "#", "r", "e", "g", "i", "o", "n", " ", "x">>
      [] str = "// #regionx" ->
            <<"/", "/", " ", "#", "r", "e", "g", "i", "o", "n", "x">>
      [] str = "/* c */" -> <<"/", "*", " ", "c", " ", "*", "/">>
      [] str = "/*\n*/" -> <<"/", "*", "\n", "*", "/">>

CommentTexts ==
    {Chars(str) : str \in {"// a", "// b", "// #region", "// #endregion",
                           "//#region x", "// #regionx", "/* c */",
                           "/*\n*/"}}

\* sourceFile.getFullText(): the comments, each followed by a line break.
RECURSIVE SourceTextOf(_)
SourceTextOf(cs) ==
    IF cs = <<>> THEN <<>> ELSE Head(cs) \o <<"\n">> \o SourceTextOf(Tail(cs))

\* ts.getLeadingCommentRanges: kind, pos and end of the i-th comment.
CommentPos(cs, i) == Len(SourceTextOf(SubSeq(cs, 1, i - 1)))
CommentEnd(cs, i) == CommentPos(cs, i) + Len(cs[i])
CommentKind(cs, i) ==
    IF cs[i][2] = "/" THEN "SingleLineCommentTrivia"
    ELSE "MultiLineCommentTrivia"

\* sourceText.slice(pos, end).
Slice(text, pos, end) == SubSeq(text, pos + 1, end)

\* sourceFile.getLineAndCharacterOfPosition(position).
getLineAndCharacterOfPosition(text, position) ==
    LET breaks == {k \in 1..position : text[k] = "\n"}
        lineStart == IF breaks = {} THEN 0
                     ELSE CHOOSE k \in breaks : \A m \in breaks : m <= k
    IN  LC(Cardinality(breaks), position - lineStart)

\* toSourceRange of the builder-based indexer: file.at(...).
toSourceRange(file, start, end) ==
    <<file, start.line + 1, start.character + 1, end.line + 1, end.character>>

\* The characters \s matches, and the line terminators . does not match.
WhiteSpace == {" ", "\t", "\n", "\r", "\f"}
LineTerminators == {"\n", "\r"}

StartsWith(t, i, word) ==
    /\ i + Len(word) - 1 <= Len(t)
    /\ SubSeq(t, i, i + Len(word) - 1) = word

\* The first index from i on that holds no white space.
RECURSIVE SkipWhiteSpace(_, _)
SkipWhiteSpace(t, i) ==
    IF i <= Len(t) /\ t[i] \in WhiteSpace THEN SkipWhiteSpace(t, i + 1) ELSE i

\* (?:\s+(.*))?(?:\r)?$ from index i on.
RegionTail(t, i) ==
    LET optionalCR(k) == k > Len(t) \/ (k = Len(t) /\ t[k] = "\r")
    IN  \/ optionalCR(i)
        \/ \E k \in (i + 1)..(Len(t) + 1) :
              /\ \A m \in i..(k - 1) : t[m] \in WhiteSpace
              /\ \E n \in k..(Len(t) + 1) :
                    /\ \A m \in k..(n - 1) : t[m] \notin LineTerminators
                    /\ optionalCR(n)

\* isRegionDelimiter: /^\s*\/\/\s*#(end)?region(?:\s+(.*))?(?:\r)?$/
isRegionDelimiter(lineText) ==
    LET i1 == SkipWhiteSpace(lineText, 1)
        i2 == SkipWhiteSpace(lineText, i1 + 2)
        i3 == IF StartsWith(lineText, i2 + 1, <<"e", "n", "d">>)
              THEN i2 + 4 ELSE i2 + 1
    IN  /\ StartsWith(lineText, i1, <<"/", "/">>)
        /\ StartsWith(lineText, i2, <<"#">>)
        /\ StartsWith(lineText, i3, <<"r", "e", "g", "i", "o", "n">>)
        /\ RegionTail(lineText, i3 + 6)

\* The local variables of the function, and the ranges recorded so far.
Run ==
    [firstSingleLineCommentStart |-> firstSingleLineCommentStart,
     lastSingleLineCommentEnd |-> lastSingleLineCommentEnd,
     singleLineCommentCount |-> singleLineCommentCount,
     atomicRanges |-> atomicRanges]

RunBecomes(r) ==
    /\ firstSingleLineCommentStart' = r.firstSingleLineCommentStart
    /\ lastSingleLineCommentEnd' = r.lastSingleLineCommentEnd
    /\ singleLineCommentCount' = r.singleLineCommentCount
    /\ atomicRanges' = r.atomicRanges

FoldText == SourceTextOf(comments)

\* combineAndAddMultipleSingleLineComments with `> 0` for `> 1`.
combineAndAddMultipleSingleLineComments_FromOne(r) ==
    IF r.singleLineCommentCount > 0
    THEN [r EXCEPT !.atomicRanges = Append(@,
             toSourceRange("fileBuilder",
                 getLineAndCharacterOfPosition(FoldText, r.firstSingleLineCommentStart),
                 getLineAndCharacterOfPosition(FoldText, r.lastSingleLineCommentEnd)))]
    ELSE r

\* combineAndAddMultipleSingleLineComments.
combineAndAddMultipleSingleLineComments(r) ==
    IF r.singleLineCommentCount > 1
    THEN [r EXCEPT !.atomicRanges = Append(@,
             toSourceRange("fileBuilder",
                 getLineAndCharacterOfPosition(FoldText, r.firstSingleLineCommentStart),
                 getLineAndCharacterOfPosition(FoldText, r.lastSingleLineCommentEnd)))]
    ELSE r

\* The region-delimiter branch without `singleLineCommentCount = 0`.
RegionDelimiterCase_NoReset(r) == combineAndAddMultipleSingleLineComments(r)

\* case SingleLineCommentTrivia, the text is a region delimiter.
RegionDelimiterCase(r) ==
    [combineAndAddMultipleSingleLineComments(r) EXCEPT
        !.singleLineCommentCount = 0]

\* case SingleLineCommentTrivia, any other text.
SingleLineCase(r, pos, end) ==
    [r EXCEPT
        !.firstSingleLineCommentStart =
            IF r.singleLineCommentCount = 0 THEN pos ELSE @,
        !.lastSingleLineCommentEnd = end,
        !.singleLineCommentCount = @ + 1]

\* case MultiLineCommentTrivia recording its own range ahead of the pending
\* run's.
MultiLineCase_RunLast(r, pos, end) ==
    LET own == [r EXCEPT
                   !.atomicRanges = Append(@,
                       toSourceRange("fileBuilder",
                           getLineAndCharacterOfPosition(FoldText, pos),
                           getLineAndCharacterOfPosition(FoldText, end)))]
    IN  [combineAndAddMultipleSingleLineComments(own) EXCEPT
            !.singleLineCommentCount = 0]

\* case MultiLineCommentTrivia.
MultiLineCase(r, pos, end) ==
    LET f == combineAndAddMultipleSingleLineComments(r)
    IN  [f EXCEPT
            !.atomicRanges = Append(@,
                toSourceRange("fileBuilder",
                    getLineAndCharacterOfPosition(FoldText, pos),
                    getLineAndCharacterOfPosition(FoldText, end))),
            !.singleLineCommentCount = 0]

Looping == fpc = "loop" /\ ci <= Len(comments)

FoldRegionDelimiter ==
    /\ Looping
    /\ CommentKind(comments, ci) = "SingleLineCommentTrivia"
    /\ isRegionDelimiter(Slice(FoldText, CommentPos(comments, ci),
                               CommentEnd(comments, ci)))
    /\ RunBecomes(RegionDelimiterCase(Run))
    /\ ci' = ci + 1
    /\ UNCHANGED <<comments, fpc, sessionVars, visitVars, cmdVars,
                   pathVars>>

FoldSingleLine ==
    /\ Looping
    /\ CommentKind(comments, ci) = "SingleLineCommentTrivia"
    /\ ~isRegionDelimiter(Slice(FoldText, CommentPos(comments, ci),
                                CommentEnd(comments, ci)))
    /\ RunBecomes(SingleLineCase(Run, CommentPos(comments, ci),
                                 CommentEnd(comments, ci)))
    /\ ci' = ci + 1
    /\ UNCHANGED <<comments, fpc, sessionVars, visitVars, cmdVars,
                   pathVars>>

FoldMultiLine ==
    /\ Looping
    /\ CommentKind(comments, ci) = "MultiLineCommentTrivia"
    /\ RunBecomes(MultiLineCase(Run, CommentPos(comments, ci),
                                CommentEnd(comments, ci)))
    /\ ci' = ci + 1
    /\ UNCHANGED <<comments, fpc, sessionVars, visitVars, cmdVars,
                   pathVars>>

\* The call of combineAndAddMultipleSingleLineComments after the loop.
FoldEnd ==
    /\ fpc = "loop" /\ ci > Len(comments)
    /\ RunBecomes(combineAndAddMultipleSingleLineComments(Run))
    /\ fpc' = "done"
    /\ UNCHANGED <<comments, ci, sessionVars, visitVars, cmdVars,
                   pathVars>>

InitIdleSession ==
    /\ pc = "idle"
    /\ clear = FALSE
    /\ sourceFiles = <<>>
    /\ libRefs = <<>>
    /\ diagnostics = <<>>
    /\ failAt = {}
    /\ sdb = NewStore(EmptyGraph)
    /\ fileIds = <<>>
    /\ lookups = <<>>
    /\ derived = <<>>
    /\ fileIndex = 1
    /\ threw = FALSE
    /\ console = <<>>

InitComments ==
    /\ InitIdleSession
    /\ InitNoVisit
    /\ InitNoPath
    /\ InitNoCommand
    /\ comments \in SeqsUpTo(CommentTexts, MaxComments)
    /\ ci = 1
    /\ firstSingleLineCommentStart = -1
    /\ lastSingleLineCommentEnd = -1
    /\ singleLineCommentCount = 0
    /\ atomicRanges = <<>>
    /\ fpc = "loop"

NextFold == FoldRegionDelimiter \/ FoldSingleLine \/ FoldMultiLine \/ FoldEnd

SpecFold == InitComments /\ [][NextFold]_vars

---------------------------------------------------------------------------
(* Properties of the comment folder.                                       *)
Folded == fpc = "done"

IsDelimiter(k) ==
    /\ CommentKind(comments, k) = "SingleLineCommentTrivia"
    /\ isRegionDelimiter(comments[k])

IsMultiLine(k) == CommentKind(comments, k) = "MultiLineCommentTrivia"

InRun(k) ==
    /\ CommentKind(comments, k) = "SingleLineCommentTrivia"
    /\ ~isRegionDelimiter(comments[k])

\* The maximal runs of consecutive non-delimiter single-line comments.
MaximalRuns ==
    {run \in (1..Len(comments)) \X (1..Len(comments)) :
        /\ run[1] <= run[2]
        /\ \A k \in run[1]..run[2] : InRun(k)
        /\ run[1] = 1 \/ ~InRun(run[1] - 1)
        /\ run[2] = Len(comments) \/ ~InRun(run[2] + 1)}

\* The range from the start of comment i to the end of comment j.
SpanOf(i, j) ==
    toSourceRange("fileBuilder",
        getLineAndCharacterOfPosition(FoldText, CommentPos(comments, i)),
        getLineAndCharacterOfPosition(FoldText, CommentEnd(comments, j)))

Occurrences(range) ==
    Cardinality({n \in 1..Len(atomicRanges) : atomicRanges[n] = range})

\* The range holds the first character of comment k.
Covers(range, k) ==
    LET at == getLineAndCharacterOfPosition(FoldText, CommentPos(comments, k))
        line == at.line + 1
        column == at.character + 1
    IN  /\ range[2] < line \/ (range[2] = line /\ range[3] <= column)
        /\ line < range[4] \/ (line = range[4] /\ column <= range[5])

Uncovered(k) ==
    \A n \in 1..Len(atomicRanges) : ~Covers(atomicRanges[n], k)

\* C9: once the leading comments of a node are folded, every maximal run of
\* two or more consecutive non-delimiter single-line comments has produced
\* exactly one atomic range, from the start of its first comment to the end
\* of its last one; a run of exactly one comment lies in no atomic range;
\* and no range other than these and those of the multi-line comments exists.
C9_RunsOfTwoOrMore ==
    Folded =>
        /\ \A run \in MaximalRuns :
              IF run[2] > run[1]
              THEN Occurrences(SpanOf(run[1], run[2])) = 1
              ELSE Uncovered(run[1])
        /\ Len(atomicRanges) =
              Cardinality({run \in MaximalRuns : run[2] > run[1]})
              + Cardinality({k \in 1..Len(comments) : IsMultiLine(k)})

C9_Witness ==
    /\ Folded
    /\ \E run \in MaximalRuns : run[2] > run[1]
    /\ \E run \in MaximalRuns : run[2] = run[1]
    /\ \E n \in 1..Len(atomicRanges), run \in MaximalRuns :
          run[2] > run[1] /\ atomicRanges[n] = SpanOf(run[1], run[2])

RegionExample ==
    <<Chars("// #region"), Chars("// a"), Chars("// b"),
      Chars("// #endregion")>>

\* C10: a region delimiter that has been visited has ended the pending run
\* (no run is open right after it, and the run before it was recorded only
\* if it had two or more comments), lies in no atomic range, and no atomic
\* range holds a comment before it together with a comment after it; the
\* comments #region, a, b, #endregion fold into the one range a..b.
C10_DelimiterEndsRun ==
    /\ \A k \in 1..(ci - 1) :
          IsDelimiter(k) =>
              /\ Uncovered(k)
              /\ k = ci - 1 => singleLineCommentCount = 0
              /\ \A n \in 1..Len(atomicRanges), i \in 1..(k - 1),
                    j \in (k + 1)..Len(comments) :
                    ~(Covers(atomicRanges[n], i) /\ Covers(atomicRanges[n], j))
              /\ (k > 1 /\ InRun(k - 1) /\ (k = 2 \/ ~InRun(k - 2))) =>
                    Uncovered(k - 1)
    /\ (Folded /\ comments = RegionExample) => atomicRanges = <<SpanOf(2, 3)>>

C10_Witness ==
    /\ Folded
    /\ comments = RegionExample
    /\ atomicRanges = <<SpanOf(2, 3)>>

\* The places of a range among the recordAtomicSourceRange calls made.
PlacesOf(range) == {n \in 1..Len(atomicRanges) : atomicRanges[n] = range}

CommentExample == <<Chars("// a"), Chars("// b"), Chars("/* c */")>>

\* C11: a multi-line comment that has been visited has produced exactly one
\* atomic range, spanning exactly that comment, recorded last at the moment
\* it was visited and with no run left open; no other range holds it; the
\* range of a run of two or more single-line comments is recorded before the
\* range of every multi-line comment that follows the run and after the
\* range of every one that precedes it; no range holds comments on both
\* sides of it; and // a, // b, /* c */ fold into a..b, then c.
C11_MultiLineOwnRange ==
    /\ \A k \in 1..(ci - 1) :
          IsMultiLine(k) =>
              /\ Occurrences(SpanOf(k, k)) = 1
              /\ \A n \in 1..Len(atomicRanges) :
                    Covers(atomicRanges[n], k) => atomicRanges[n] = SpanOf(k, k)
              /\ k = ci - 1 =>
                    /\ singleLineCommentCount = 0
                    /\ atomicRanges[Len(atomicRanges)] = SpanOf(k, k)
              /\ \A n \in 1..Len(atomicRanges), i \in 1..(k - 1),
                    j \in (k + 1)..Len(comments) :
                    ~(Covers(atomicRanges[n], i) /\ Covers(atomicRanges[n], j))
              /\ \A run \in MaximalRuns :
                    (run[2] > run[1] /\ run[2] < k) =>
                        \E m \in PlacesOf(SpanOf(run[1], run[2])) :
                            \A n \in PlacesOf(SpanOf(k, k)) : m < n
              /\ \A run \in MaximalRuns :
                    (run[2] > run[1] /\ run[1] > k /\ Folded) =>
                        \E m \in PlacesOf(SpanOf(run[1], run[2])) :
                            \A n \in PlacesOf(SpanOf(k, k)) : n < m
    /\ (Folded /\ comments = CommentExample) =>
           atomicRanges = <<SpanOf(1, 2), SpanOf(3, 3)>>

C11_Witness ==
    /\ Folded
    /\ comments = CommentExample
    /\ atomicRanges = <<SpanOf(1, 2), SpanOf(3, 3)>>

---------------------------------------------------------------------------
(* Properties of the module / package deriver and of the library pass.     *)
Graph == sdb.content

SymbolsNamed(name) == {r \in Graph.symbols : r.name = name}

HasKind(id, kind) == [id |-> id, kind |-> kind] \in Graph.kinds

\* The references of one kind from one symbol to another.
Edges(from, to, kind) ==
    {r \in Graph.references : r.from = from /\ r.to = to /\ r.kind = kind}

\* C12: when the session has ended without an exception, every source file
\* the front-end enumerates has a symbol of kind MODULE whose hierarchy is
\* the file's path relative to the current directory, split into segments,
\* with separator "/", and a scope range from the start to the end of the
\* file.
C12_ModulePerSourceFile ==
    (pc = "done" /\ ~threw) =>
        \A n \in DOMAIN sourceFiles :
            \E r \in sdb.committed.symbols :
                /\ r.name = NameHierarchy("/", PathRelativeSplit(getCurrentDirectory,
                                                                 sourceFiles[n]))
                /\ [id |-> r.id, kind |-> "MODULE"] \in sdb.committed.kinds
                /\ \E sc \in sdb.committed.scopes :
                      /\ sc.id = r.id
                      /\ sc.range[2] = FileStart(sourceFiles[n]).line + 1
                      /\ sc.range[4] = FileEnd(sourceFiles[n]).line + 1

\* The indices of the dependency-directory marker in a list of segments.
Markers(parts) == {i \in DOMAIN parts : parts[i] = "node_modules"}

\* How often the module symbol of a file has been derived.
Derivations(sf) == Cardinality({i \in DOMAIN derived : derived[i].file = sf})

Processed(f, k) ==
    /\ f < fileIndex
    /\ \A j \in 1..k : libRefs[f][j] # NoFile

ProcessedDirectives ==
    {d \in (DOMAIN sourceFiles) \X (1..MaxRefs) :
        d[2] \in DOMAIN libRefs[d[1]] /\ Processed(d[1], d[2])}

\* The span of the k-th directive of the f-th source file, in that file.
DirectiveSpan(f, k) ==
    Indexing_libReferenceToSourceRange(k, sourceFiles[f], fileIds[sourceFiles[f]])

---------------------------------------------------------------------------
(* Properties of the diagnostics pass.                                     *)
WithFile == {n \in DOMAIN diagnostics : diagnostics[n].file # NoFile}

WithoutFile == {n \in DOMAIN diagnostics : diagnostics[n].file = NoFile}

\* The diagnostics pass has just ended.
DiagnosticsDone == pc = "forEach" /\ fileIndex = 1

\* C15: when the diagnostics pass has ended it has not thrown, it has
\* called recordError once per diagnostic with a file, the store holds for
\* each of these the flattened message with a range in the diagnostic's
\* file, the only files registered are files of diagnostics, and one line
\* per diagnostic without a file has been logged, in order.
C15_DiagnosticsPass ==
    DiagnosticsDone =>
        /\ ~threw
        /\ Cardinality(CallsOf("recordError")) = Cardinality(WithFile)
        /\ \A n \in WithFile :
              /\ diagnostics[n].file \in DOMAIN fileIds
              /\ \E r \in Graph.errors :
                    /\ r.message = flattenDiagnosticMessageText(
                                       diagnostics[n].messageText, "\n")
                    /\ r.range[1] = fileIds[diagnostics[n].file]
                    /\ r.range[2] = diagnostics[n].start.line + 1
                    /\ r.range[4] = diagnostics[n].end.line + 1
        /\ DOMAIN fileIds = {diagnostics[n].file : n \in WithFile}
        /\ Cardinality(CallsOf("recordFile")) = Cardinality(DOMAIN fileIds)
        /\ Len(console) = Cardinality(WithoutFile)
        /\ \A n \in DOMAIN console :
              \E k \in WithoutFile :
                  /\ Cardinality({j \in WithoutFile : j <= k}) = n
                  /\ console[n] = flattenDiagnosticMessageText(
                                      diagnostics[k].messageText, "\n")

\* C15 witness: a diagnostic without a file followed by one in a.ts; one
\* line logged, one record written, with the chained message on two lines.
C15_Witness ==
    /\ DiagnosticsDone
    /\ Len(diagnostics) = 2
    /\ diagnostics[1].file = NoFile /\ diagnostics[2].file = FA
    /\ console = <<"no file">>
    /\ Cardinality(CallsOf("recordError")) = 1
    /\ \E r \in Graph.errors : r.message = "in a.ts\n  detail"

---------------------------------------------------------------------------
(* Properties of the source range mapper.                                  *)
\* The one mapping of zero-based positions the specification gives.
CanonicalRange(fileId, start, end) ==
    <<fileId, start.line + 1, start.character + 1,
      end.line + 1, end.character + 1>>

AllDirectives ==
    {d \in (DOMAIN sourceFiles) \X (1..MaxRefs) : d[2] \in DOMAIN libRefs[d[1]]}

\* C16: every range the session has written (symbol locations, reference
\* locations, scopes, diagnostics) is the canonical mapping of the
\* positions it was made from: of a directive's span, of a file's extent,
\* of a diagnostic's span.
C16_OneRangeMapping ==
    sdb.opened =>
        /\ \A r \in Graph.locations \cup Graph.referenceLocations :
              \E d \in AllDirectives, id \in 1..sdb.nextId :
                  r.range = CanonicalRange(id, RefPos(d[2]), RefEnd(d[2]))
        /\ \A r \in Graph.scopes :
              \E sf \in DOMAIN fileIds, id \in 1..sdb.nextId :
                  r.range = CanonicalRange(id, FileStart(sf), FileEnd(sf))
        /\ \A r \in Graph.errors :
              \E n \in WithFile, id \in 1..sdb.nextId :
                  r.range = CanonicalRange(id, diagnostics[n].start,
                                           diagnostics[n].end)

\* A transaction is open after the k-th call of the session.
RECURSIVE TransactionOpenAfter(_)
TransactionOpenAfter(k) ==
    IF k = 0 THEN FALSE
    ELSE IF Calls[k].ok /\ Calls[k].op = "beginTransaction" THEN TRUE
    ELSE IF Calls[k].ok /\ Calls[k].op \in {"commitTransaction", "close"}
    THEN FALSE
    ELSE TransactionOpenAfter(k - 1)

\* C27: beginTransaction is never called while a transaction is open,
\* commitTransaction only while one is open, close with no transaction open
\* unless an exception has ended the pass, and every record call of the pass
\* is made while a transaction is open.
C27_TransactionDiscipline ==
    \A i \in DOMAIN Calls :
        /\ Calls[i].op = "beginTransaction" => ~TransactionOpenAfter(i - 1)
        /\ Calls[i].op = "commitTransaction" => TransactionOpenAfter(i - 1)
        /\ Calls[i].op = "close" /\ ~threw => ~TransactionOpenAfter(i - 1)
        /\ IsRecordCall(Calls[i]) => TransactionOpenAfter(i - 1)

\* The positions of a range, without the file it names.
Positions(range) == SubSeq(range, 2, 5)

\* C25: every range the session has written names the file its positions
\* were computed in: a scope range that spans the extent of a registered
\* file names that file, a location names a source file that has a
\* directive at these positions, and the range of a diagnostic names the
\* diagnostic's file.
C25_RangeFileIdentity ==
    sdb.opened =>
        /\ \A r \in Graph.scopes : \A sf \in DOMAIN fileIds :
              Positions(r.range)
                  = Positions(Indexing_nodeToSourceRange(sf, 0))
              => r.range[1] = fileIds[sf]
        /\ \A r \in Graph.locations \cup Graph.referenceLocations :
              \E d \in AllDirectives :
                  r.range = Indexing_libReferenceToSourceRange(
                                d[2], sourceFiles[d[1]],
                                fileIds[sourceFiles[d[1]]])
        /\ \A r \in Graph.errors :
              \E n \in WithFile :
                  /\ diagnostics[n].file \in DOMAIN fileIds
                  /\ r.range = CanonicalRange(fileIds[diagnostics[n].file],
                                              diagnostics[n].start,
                                              diagnostics[n].end)

---------------------------------------------------------------------------
(* The traversal: visitTypeNodes of the builder-based indexer.  A source   *)
(* file is a list of top-level declarations, one per line; its syntax tree *)
(* is the list of its nodes in pre-order, each with the index of its       *)
(* parent.  The comments of the file are ahead of its first token.         *)
\* 1 << 23
AmbientFlag == 2^23

\* node.flags & flag
HasFlag(flags, flag) == (flags \div flag) % 2 = 1

SpanAt(line, from, to) == [pos |-> LC(line, from), end |-> LC(line, to)]

NoSpan == SpanAt(0, 0, 0)

\* A node with a name: its kind, flags, parent, extent (getStart..getEnd),
\* the text and extent of its name, and the names of its symbol and of the
\* symbol's parents, outermost first.
Named(kind, flags, parent, span, name, nameSpan, names) ==
    [kind |-> kind, flags |-> flags, parent |-> parent, span |-> span,
     name |-> name, nameSpan |-> nameSpan, names |-> names,
     typeText |-> "", typeSpan |-> NoSpan]

Unnamed(kind, flags, parent, span) ==
    Named(kind, flags, parent, span, "", NoSpan, <<>>)

\* A type alias: also the text and extent of its type.
Alias(flags, parent, span, name, nameSpan, typeText, typeSpan) ==
    [Named("TypeAliasDeclaration", flags, parent, span, name, nameSpan,
           <<name>>) EXCEPT !.typeText = typeText, !.typeSpan = typeSpan]

DeclTexts ==
    {"declare var X: number;",
     "function f() { var X = 1; }",
     "declare function g(): void;",
     "const h = () => 1, k = function () {};",
     "declare class C { m(): void; p: number; get a(): number; }",
     "interface I { s(): void; q: string; }",
     "declare type T = U;",
     "type V = W;"}

\* The nodes of one declaration on line l, the first of them at index b + 1
\* of the tree; node 1 of the tree is the source file.
DeclNodes(text, l, b) ==
    CASE text = "declare var X: number;" ->
           <<Unnamed("VariableStatement", AmbientFlag, 1, SpanAt(l, 0, 22)),
             Unnamed("VariableDeclarationList", AmbientFlag, b + 1,
                     SpanAt(l, 8, 21)),
             Named("VariableDeclaration", AmbientFlag, b + 2, SpanAt(l, 12, 21),
                   "X", SpanAt(l, 12, 13), <<"X">>)>>
      [] text = "function f() { var X = 1; }" ->
           <<Named("FunctionDeclaration", 0, 1, SpanAt(l, 0, 27),
                   "f", SpanAt(l, 9, 10), <<"f">>),
             Unnamed("Block", 0, b + 1, SpanAt(l, 13, 27)),
             Unnamed("VariableStatement", 0, b + 2, SpanAt(l, 15, 25)),
             Unnamed("VariableDeclarationList", 0, b + 3, SpanAt(l, 15, 24)),
             Named("VariableDeclaration", 0, b + 4, SpanAt(l, 19, 24),
                   "X", SpanAt(l, 19, 20), <<"X">>)>>
      [] text = "declare function g(): void;" ->
           <<Named("FunctionDeclaration", AmbientFlag, 1, SpanAt(l, 0, 27),
                   "g", SpanAt(l, 17, 18), <<"g">>)>>
      [] text = "const h = () => 1, k = function () {};" ->
           <<Unnamed("VariableStatement", 0, 1, SpanAt(l, 0, 38)),
             Unnamed("VariableDeclarationList", 0, b + 1,
                     SpanAt(l, 0, 37)),
             Named("VariableDeclaration", 0, b + 2, SpanAt(l, 6, 17),
                   "h", SpanAt(l, 6, 7), <<"h">>),
             Unnamed("ArrowFunction", 0, b + 3, SpanAt(l, 10, 17)),
             Named("VariableDeclaration", 0, b + 2, SpanAt(l, 19, 37),
                   "k", SpanAt(l, 19, 20), <<"k">>),
             Unnamed("FunctionExpression", 0, b + 5, SpanAt(l, 23, 37))>>
      [] text = "declare class C { m(): void; p: number; get a(): number; }" ->
           <<Named("ClassDeclaration", AmbientFlag, 1, SpanAt(l, 0, 58),
                   "C", SpanAt(l, 14, 15), <<"C">>),
             Named("MethodDeclaration", AmbientFlag, b + 1, SpanAt(l, 18, 28),
                   "m", SpanAt(l, 18, 19), <<"C", "m">>),
             Named("PropertyDeclaration", AmbientFlag, b + 1, SpanAt(l, 29, 39),
                   "p", SpanAt(l, 29, 30), <<"C", "p">>),
             Named("GetAccessor", AmbientFlag, b + 1, SpanAt(l, 40, 56),
                   "a", SpanAt(l, 44, 45), <<"C", "a">>)>>
      [] text = "interface I { s(): void; q: string; }" ->
           <<Named("InterfaceDeclaration", 0, 1, SpanAt(l, 0, 37),
                   "I", SpanAt(l, 10, 11), <<"I">>),
             Named("MethodSignature", 0, b + 1, SpanAt(l, 14, 24),
                   "s", SpanAt(l, 14, 15), <<"I", "s">>),
             Named("PropertySignature", 0, b + 1, SpanAt(l, 25, 35),
                   "q", SpanAt(l, 25, 26), <<"I", "q">>)>>
      [] text = "declare type T = U;" ->
           <<Alias(AmbientFlag, 1, SpanAt(l, 0, 19), "T", SpanAt(l, 13, 14),
                   "U", SpanAt(l, 17, 18))>>
      [] text = "type V = W;" ->
           <<Alias(0, 1, SpanAt(l, 0, 11), "V", SpanAt(l, 5, 6),
                   "W", SpanAt(l, 9, 10))>>

\* The nodes of the declarations from the k-th on, the first declaration
\* on line `first`, after b nodes.
RECURSIVE DeclsFrom(_, _, _, _)
DeclsFrom(decls, k, first, b) ==
    IF k > Len(decls) THEN <<>>
    ELSE LET nodes == DeclNodes(decls[k], first + k - 1, b)
         IN  nodes \o DeclsFrom(decls, k + 1, first, b + Len(nodes))

\* The syntax tree of the source file that holds the comments cs, each on
\* lines of its own, and then these declarations.  The source file node
\* starts at the first token, as every node does.
TreeOf(decls, cs) ==
    LET first == getLineAndCharacterOfPosition(SourceTextOf(cs),
                                               Len(SourceTextOf(cs))).line
    IN  <<[Unnamed("SourceFile", 0, 0, NoSpan) EXCEPT
              !.span = [pos |-> LC(first, 0),
                        end |-> LC(first + Len(decls), 0)]]>>
        \o DeclsFrom(decls, 1, first, 1)

\* node.pos is the start of the file: the node begins with the first token
\* of the file, and the comments ahead of that token lead it.
AtFileStart(n) == tree[n].span.pos = tree[1].span.pos

\* The cases of the loop of recordAtomicSourceRangesForMultilineComments for
\* the i-th comment.
CommentCase(r, i) ==
    IF CommentKind(comments, i) = "MultiLineCommentTrivia"
    THEN MultiLineCase(r, CommentPos(comments, i), CommentEnd(comments, i))
    ELSE IF isRegionDelimiter(Slice(FoldText, CommentPos(comments, i),
                                    CommentEnd(comments, i)))
    THEN RegionDelimiterCase(r)
    ELSE SingleLineCase(r, CommentPos(comments, i), CommentEnd(comments, i))

RECURSIVE FoldFrom(_, _)
FoldFrom(r, i) ==
    IF i > Len(comments) THEN combineAndAddMultipleSingleLineComments(r)
    ELSE FoldFrom(CommentCase(r, i), i + 1)

\* recordAtomicSourceRangesForMultilineComments(writer, file, sf, node), as
\* one call: the ranges recorded after it.
recordAtomicSourceRangesForMultilineComments(n) ==
    IF AtFileStart(n)
    THEN FoldFrom([firstSingleLineCommentStart |-> -1,
                   lastSingleLineCommentEnd |-> -1,
                   singleLineCommentCount |-> 0,
                   atomicRanges |-> atomicRanges], 1).atomicRanges
    ELSE atomicRanges

\* ts.forEachChild(node, ...): the children of node n, in source order.
RECURSIVE ChildrenFrom(_, _)
ChildrenFrom(n, i) ==
    IF i > Len(tree) THEN <<>>
    ELSE (IF tree[i].parent = n THEN <<i>> ELSE <<>>) \o ChildrenFrom(n, i + 1)

Children(n) == ChildrenFrom(n, 1)

\* nodeToSourceRange(node, file), for a node of the given extent.
nodeToSourceRange(span, file) == toSourceRange(file, span.pos, span.end)

\* What the traversal has written through the writer.
Written == [built |-> built, usages |-> usages]

\* writer.createSymbol(sep, names).explicitly().ofType(kind)
\*       .atLocation(location).withSignature(signature), made for node n;
\* a chain without atLocation / withSignature has <<>> in its place.
createSymbol(w, n, sep, names, kind, location, signature) ==
    [w EXCEPT !.built = Append(@,
        [node |-> n, sep |-> sep, names |-> names, definition |-> "EXPLICIT",
         kind |-> kind, location |-> location, signature |-> signature])]

\* symbol.isReferencedBy(other, kind), made for node n: a reference from
\* the other symbol to this one.
isReferencedBy(w, n, names, other, kind) ==
    [w EXCEPT !.usages = Append(@,
        [node |-> n, from |-> other, to |-> names, kind |-> kind])]

\* The `file` argument of visitTypeNodes: the builder of the file that is
\* traversed, which stands for the file in every range made with it.
VisitedFile == fileIds[sourceFiles[fileIndex]]

\* case MethodDeclaration, GetAccessor, SetAccessor, MethodSignature.
MemberKinds ==
    {"MethodDeclaration", "GetAccessor", "SetAccessor", "MethodSignature"}

MemberArm(w, n) ==
    createSymbol(w, n, ".", tree[n].names, "FIELD",
                 nodeToSourceRange(tree[n].nameSpan, VisitedFile),
                 nodeToSourceRange(tree[n].span, VisitedFile))

\* case PropertyDeclaration, PropertySignature: nothing is written.
PropertyKinds == {"PropertyDeclaration", "PropertySignature"}

PropertyArm(w, n) == w

\* case BindingElement, PropertyAssignment, VariableDeclaration.
VariableKinds == {"BindingElement", "PropertyAssignment", "VariableDeclaration"}

VariableArm(w, n) ==
    IF HasFlag(tree[n].flags, AmbientFlag)
    THEN createSymbol(w, n, ".", <<tree[n].name>>, "GLOBAL_VARIABLE",
                      nodeToSourceRange(tree[n].nameSpan, VisitedFile),
                      nodeToSourceRange(tree[tree[n].parent].span, VisitedFile))
    ELSE w

\* case FunctionDeclaration.
FunctionArm(w, n) ==
    IF tree[n].name # "" /\ HasFlag(tree[n].flags, AmbientFlag)
    THEN createSymbol(w, n, ".", <<tree[n].name>>, "GLOBAL_VARIABLE",
                      nodeToSourceRange(tree[n].nameSpan, VisitedFile),
                      nodeToSourceRange(tree[tree[n].parent].span, VisitedFile))
    ELSE w

\* case ArrowFunction, FunctionExpression: nothing is written.
FunctionExpressionKinds == {"ArrowFunction", "FunctionExpression"}

FunctionExpressionArm(w, n) == w

\* case ClassDeclaration, InterfaceDeclaration.
ClassKinds == {"ClassDeclaration", "InterfaceDeclaration"}

ClassArm(w, n) ==
    IF HasFlag(tree[n].flags, AmbientFlag)
    THEN createSymbol(w, n, ".", <<tree[n].name>>, "GLOBAL_VARIABLE",
                      nodeToSourceRange(tree[n].nameSpan, VisitedFile), <<>>)
    ELSE w

\* case TypeAliasDeclaration.
TypeAliasArm(w, n) ==
    IF HasFlag(tree[n].flags, AmbientFlag)
    THEN isReferencedBy(
           createSymbol(
             createSymbol(w, n, ".", <<tree[n].name>>, "GLOBAL_VARIABLE",
                          nodeToSourceRange(tree[n].nameSpan, VisitedFile),
                          nodeToSourceRange(tree[n].span, VisitedFile)),
             n, ".", <<tree[n].typeText>>, "TYPEDEF",
             nodeToSourceRange(tree[n].typeSpan, VisitedFile), <<>>),
           n, <<tree[n].typeText>>, <<tree[n].name>>, "USAGE")
    ELSE w

ArmKinds ==
    MemberKinds \cup PropertyKinds \cup VariableKinds \cup ClassKinds
    \cup FunctionExpressionKinds \cup {"FunctionDeclaration",
                                       "TypeAliasDeclaration"}

\* An entry of the trace: a pass over a file (by its index in the
\* enumeration, 0 for the diagnostics pass), or the visit of a node.
Event(pass, file, node) == [pass |-> pass, file |-> file, node |-> node]

\* visitTypeNodes with arms that return instead of breaking out of the
\* switch: the children of a declaration an arm handles are never visited.
Visit_ArmsReturn(n, w) ==
    /\ built' = w.built
    /\ usages' = w.usages
    /\ visited' = Append(visited, n)
    /\ pending' = (IF tree[n].kind \in ArmKinds THEN <<>> ELSE Children(n))
                  \o Tail(pending)
    /\ trace' = Append(trace, Event("visitTypeNodes", fileIndex, n))
    /\ atomicRanges' = recordAtomicSourceRangesForMultilineComments(n)
    /\ UNCHANGED <<tree, sessionVars, cmdVars, pathVars, comments, ci, fpc,
                   firstSingleLineCommentStart, lastSingleLineCommentEnd,
                   singleLineCommentCount>>

\* One call of visitTypeNodes, for the node the traversal is at: the
\* leading comments are folded, the arm of the node's kind has written w;
\* the children are visited next, in order, before what was pending.
Visit(n, w) ==
    /\ built' = w.built
    /\ usages' = w.usages
    /\ visited' = Append(visited, n)
    /\ pending' = Children(n) \o Tail(pending)
    /\ trace' = Append(trace, Event("visitTypeNodes", fileIndex, n))
    /\ atomicRanges' = recordAtomicSourceRangesForMultilineComments(n)
    /\ UNCHANGED <<tree, sessionVars, cmdVars, pathVars, comments, ci, fpc,
                   firstSingleLineCommentStart, lastSingleLineCommentEnd,
                   singleLineCommentCount>>

AtKind(kinds) == pending # <<>> /\ tree[Head(pending)].kind \in kinds

VisitMember ==
    AtKind(MemberKinds) /\ Visit(Head(pending), MemberArm(Written, Head(pending)))

VisitProperty ==
    AtKind(PropertyKinds)
    /\ Visit(Head(pending), PropertyArm(Written, Head(pending)))

VisitVariable ==
    AtKind(VariableKinds)
    /\ Visit(Head(pending), VariableArm(Written, Head(pending)))

VisitFunction ==
    AtKind({"FunctionDeclaration"})
    /\ Visit(Head(pending), FunctionArm(Written, Head(pending)))

VisitFunctionExpression ==
    AtKind(FunctionExpressionKinds)
    /\ Visit(Head(pending), FunctionExpressionArm(Written, Head(pending)))

VisitClass ==
    AtKind(ClassKinds) /\ Visit(Head(pending), ClassArm(Written, Head(pending)))

VisitTypeAlias ==
    AtKind({"TypeAliasDeclaration"})
    /\ Visit(Head(pending), TypeAliasArm(Written, Head(pending)))

\* A node of a kind the switch has no arm for.
VisitOther ==
    /\ pending # <<>>
    /\ tree[Head(pending)].kind \notin ArmKinds
    /\ Visit(Head(pending), Written)

\* processSourceFile calls visitTypeNodes for the source file.
\* The comments ahead of the first token of a traversed file.
LeadingComments ==
    {<<>>, <<Chars("/* c */")>>, <<Chars("// a")>>,
     <<Chars("// a"), Chars("// b")>>,
     <<Chars("// a"), Chars("// b"), Chars("/*\n*/")>>}

\* The session at the call indexer.visitTypeNodes(writer, file, sf) for the
\* registered file a.ts.
InitVisitedFile ==
    /\ pc = "visiting"
    /\ clear = FALSE
    /\ sourceFiles = <<FA>>
    /\ libRefs = <<<<>>>>
    /\ diagnostics = <<>>
    /\ failAt = {}
    /\ sdb = NewStore(EmptyGraph)
    /\ fileIds = (FA :> FA)
    /\ lookups = <<>>
    /\ derived = <<>>
    /\ fileIndex = 1
    /\ threw = FALSE
    /\ console = <<>>

InitVisit ==
    /\ InitVisitedFile
    /\ InitNoCommand
    /\ InitNoPath
    /\ comments \in LeadingComments
    /\ ci = 1
    /\ firstSingleLineCommentStart = -1
    /\ lastSingleLineCommentEnd = -1
    /\ singleLineCommentCount = 0
    /\ atomicRanges = <<>>
    /\ fpc = "idle"
    /\ tree \in {TreeOf(decls, comments) :
                    decls \in SeqsUpTo(DeclTexts, MaxDecls)}
    /\ pending = <<1>>
    /\ visited = <<>>
    /\ built = <<>>
    /\ usages = <<>>
    /\ trace = <<>>

NextVisit ==
    \/ VisitMember
    \/ VisitProperty
    \/ VisitVariable
    \/ VisitFunction
    \/ VisitFunctionExpression
    \/ VisitClass
    \/ VisitTypeAlias
    \/ VisitOther

SpecVisit == InitVisit /\ [][NextVisit]_vars

\* The traversal is a chain of synchronous calls on one thread: a call that
\* can be made is made.
SpecVisitLive == SpecVisit /\ WF_vars(NextVisit)

---------------------------------------------------------------------------
(* Properties of the traversal.                                            *)
SymbolsFor(n) == {i \in 1..Len(built) : built[i].node = n}

UsagesFor(n) == {i \in 1..Len(usages) : usages[i].node = n}

VisitedOf(kinds) ==
    {visited[k] : k \in {j \in 1..Len(visited) : tree[visited[j]].kind \in kinds}}

IsAmbient(n) == HasFlag(tree[n].flags, AmbientFlag)

\* The declaration statement of a variable declaration (the statement its
\* declaration list is in) or of a function declaration (itself).
StatementOf(n) ==
    IF tree[n].kind = "VariableDeclaration"
    THEN tree[tree[n].parent].parent
    ELSE n

\* C17: a visited variable declaration or named function declaration has a
\* symbol if and only if it is ambient; then it has exactly one, of kind
\* GLOBAL_VARIABLE, with the hierarchy [name], located at the name and with
\* the range of the entire declaration statement as its signature; a local
\* declaration, an arrow function and a function expression have none.
C17_AmbientDeclarations ==
    /\ \A n \in VisitedOf({"VariableDeclaration", "FunctionDeclaration"}) :
         IF IsAmbient(n)
         THEN /\ Cardinality(SymbolsFor(n)) = 1
              /\ \A i \in SymbolsFor(n) :
                   /\ built[i].kind = "GLOBAL_VARIABLE"
                   /\ built[i].names = <<tree[n].name>>
                   /\ built[i].location =
                        nodeToSourceRange(tree[n].nameSpan, FA)
                   /\ built[i].signature =
                        nodeToSourceRange(tree[StatementOf(n)].span, FA)
         ELSE SymbolsFor(n) = {}
    /\ \A n \in VisitedOf(FunctionExpressionKinds) : SymbolsFor(n) = {}

\* The names of the declarations enclosing node n, outermost first.
RECURSIVE EnclosingNames(_)
EnclosingNames(n) ==
    IF tree[n].parent = 0 THEN <<>>
    ELSE EnclosingNames(tree[n].parent)
         \o (IF tree[tree[n].parent].name = "" THEN <<>>
             ELSE <<tree[tree[n].parent].name>>)

\* C18: every visited method, accessor, field or signature-only member has
\* exactly one symbol of kind FIELD, named by the names of the enclosing
\* declarations from the outermost in, then its own name, located at its
\* name and with the range of the whole member as its signature.
C18_MemberSymbols ==
    \A n \in VisitedOf(MemberKinds \cup PropertyKinds) :
        /\ Cardinality(SymbolsFor(n)) = 1
        /\ \A i \in SymbolsFor(n) :
             /\ built[i].kind = "FIELD"
             /\ built[i].names = EnclosingNames(n) \o <<tree[n].name>>
             /\ built[i].location = nodeToSourceRange(tree[n].nameSpan, FA)
             /\ built[i].signature = nodeToSourceRange(tree[n].span, FA)

\* C19: every visited type alias has exactly two symbols, one named by the
\* alias and located at its name, one of kind TYPEDEF named by the text of
\* its type and located at the type, and exactly one USAGE reference, from
\* the alias symbol to the type-text symbol.
C19_TypeAliasSymbols ==
    \A n \in VisitedOf({"TypeAliasDeclaration"}) :
        /\ Cardinality(SymbolsFor(n)) = 2
        /\ \E i \in SymbolsFor(n) :
             /\ built[i].names = <<tree[n].name>>
             /\ built[i].location = nodeToSourceRange(tree[n].nameSpan, FA)
        /\ \E i \in SymbolsFor(n) :
             /\ built[i].names = <<tree[n].typeText>>
             /\ built[i].kind = "TYPEDEF"
             /\ built[i].location = nodeToSourceRange(tree[n].typeSpan, FA)
        /\ Cardinality(UsagesFor(n)) = 1
        /\ \A i \in UsagesFor(n) :
             /\ usages[i].kind = "USAGE"
             /\ usages[i].from = <<tree[n].name>>
             /\ usages[i].to = <<tree[n].typeText>>

\* The nodes of the subtrees of the nodes ns, each subtree in depth-first
\* pre-order: a node, then the subtrees of its children in source order.
RECURSIVE PreOrderAll(_)
PreOrderAll(ns) ==
    IF ns = <<>> THEN <<>>
    ELSE <<Head(ns)>> \o PreOrderAll(Children(Head(ns)))
         \o PreOrderAll(Tail(ns))

C28_OneRangePerCommentGroup ==
    \A i, j \in DOMAIN atomicRanges :
        i # j => atomicRanges[i] # atomicRanges[j]

---------------------------------------------------------------------------
(* util/path.ts: normalizePath and what it calls.  A path is the sequence  *)
(* of its characters; positions are counted from 0, as in the source.      *)
directorySeparator == "/"
altDirectorySeparator == "\\"
urlSchemeSeparator == <<":", "/", "/">>

\* path.charCodeAt(i): no character outside the path.
CharAt(path, i) == IF i >= 0 /\ i < Len(path) THEN path[i + 1] ELSE ""

\* path.indexOf(pattern, from), -1 when there is none.
IndexOf(path, pattern, from) ==
    LET hits == {i \in from..(Len(path) - Len(pattern)) :
                    SubSeq(path, i + 1, i + Len(pattern)) = pattern}
    IN  IF hits = {} THEN -1 ELSE CHOOSE i \in hits : \A j \in hits : i <= j

\* ~n
BitNot(n) == -n - 1

isAnyDirectorySeparator(ch) == ch \in {directorySeparator, altDirectorySeparator}

hasTrailingDirectorySeparator(path) ==
    Len(path) > 0 /\ isAnyDirectorySeparator(CharAt(path, Len(path) - 1))

isVolumeCharacter(ch) ==
    ch \in {"a", "b", "c", "d", "e", "f", "g", "h", "i", "j", "k", "l", "m",
            "n", "o", "p", "q", "r", "s", "t", "u", "v", "w", "x", "y", "z",
            "A", "B", "C", "D", "E", "F", "G", "H", "I", "J", "K", "L", "M",
            "N", "O", "P", "Q", "R", "S", "T", "U", "V", "W", "X", "Y", "Z"}

getFileUrlVolumeSeparatorEnd(url, start) ==
    IF CharAt(url, start) = ":" THEN start + 1
    ELSE IF /\ CharAt(url, start) = "%"
            /\ CharAt(url, start + 1) = "3"
            /\ CharAt(url, start + 2) \in {"a", "A"}
    THEN start + 3
    ELSE -1

\* The URL branch of getEncodedRootLength, from `const schemeEnd` on.
UrlRootLength(path) ==
    LET schemeEnd == IndexOf(path, urlSchemeSeparator, 0)
        authorityStart == schemeEnd + Len(urlSchemeSeparator)
        authorityEnd == IndexOf(path, <<directorySeparator>>, authorityStart)
        scheme == Slice(path, 0, schemeEnd)
        authority == Slice(path, authorityStart, authorityEnd)
        volumeSeparatorEnd == getFileUrlVolumeSeparatorEnd(path, authorityEnd + 2)
    IN  IF schemeEnd = -1 THEN 0
        ELSE IF authorityEnd = -1 THEN BitNot(Len(path))
        ELSE IF /\ scheme = <<"f", "i", "l", "e">>
                /\ authority \in {<<>>, <<"l", "o", "c", "a", "l", "h", "o", "s", "t">>}
                /\ isVolumeCharacter(CharAt(path, authorityEnd + 1))
                /\ volumeSeparatorEnd # -1
                /\ CharAt(path, volumeSeparatorEnd) = "/"
        THEN BitNot(volumeSeparatorEnd + 1)
        ELSE IF /\ scheme = <<"f", "i", "l", "e">>
                /\ authority \in {<<>>, <<"l", "o", "c", "a", "l", "h", "o", "s", "t">>}
                /\ isVolumeCharacter(CharAt(path, authorityEnd + 1))
                /\ volumeSeparatorEnd # -1
                /\ volumeSeparatorEnd = Len(path)
        THEN BitNot(volumeSeparatorEnd)
        ELSE BitNot(authorityEnd + 1)

getEncodedRootLength(path) ==
    IF path = <<>> THEN 0
    ELSE IF isAnyDirectorySeparator(CharAt(path, 0))
    THEN IF CharAt(path, 1) # CharAt(path, 0) THEN 1
         ELSE IF IndexOf(path, <<CharAt(path, 0)>>, 2) < 0 THEN Len(path)
         ELSE IndexOf(path, <<CharAt(path, 0)>>, 2) + 1
    ELSE IF /\ isVolumeCharacter(CharAt(path, 0))
            /\ CharAt(path, 1) = ":"
            /\ isAnyDirectorySeparator(CharAt(path, 2))
    THEN 3
    ELSE IF /\ isVolumeCharacter(CharAt(path, 0))
            /\ CharAt(path, 1) = ":"
            /\ Len(path) = 2
    THEN 2
    ELSE UrlRootLength(path)

getRootLength(path) ==
    IF getEncodedRootLength(path) < 0
    THEN BitNot(getEncodedRootLength(path))
    ELSE getEncodedRootLength(path)

\* path.replace(/\\/g, "/")
normalizeSlashes(path) ==
    [i \in 1..Len(path) |->
        IF path[i] = altDirectorySeparator THEN directorySeparator ELSE path[i]]

ensureTrailingDirectorySeparator(path) ==
    IF ~hasTrailingDirectorySeparator(path)
    THEN Append(path, directorySeparator)
    ELSE path

\* text.split("/"): the pieces between the separators; one empty piece for
\* the empty text.
RECURSIVE Split(_)
Split(text) ==
    IF IndexOf(text, <<directorySeparator>>, 0) = -1 THEN <<text>>
    ELSE <<Slice(text, 0, IndexOf(text, <<directorySeparator>>, 0))>>
         \o Split(Slice(text, IndexOf(text, <<directorySeparator>>, 0) + 1,
                        Len(text)))

\* components.join("/")
RECURSIVE Join(_)
Join(components) ==
    IF components = <<>> THEN <<>>
    ELSE IF Len(components) = 1 THEN components[1]
    ELSE components[1] \o <<directorySeparator>> \o Join(Tail(components))

pathComponents(path, rootLength) ==
    LET root == Slice(path, 0, rootLength)
        rest == Split(Slice(path, rootLength, Len(path)))
    IN  <<root>> \o (IF rest[Len(rest)] = <<>>
                     THEN SubSeq(rest, 1, Len(rest) - 1)
                     ELSE rest)

\* combinePaths(path, relativePath), for one relative path.
combinePaths(path, relativePath) ==
    IF relativePath = <<>>
    THEN normalizeSlashes(path)
    ELSE IF path = <<>> \/ getRootLength(normalizeSlashes(relativePath)) # 0
    THEN normalizeSlashes(relativePath)
    ELSE ensureTrailingDirectorySeparator(normalizeSlashes(path))
         \o normalizeSlashes(relativePath)

\* getPathComponents(path), currentDirectory = "".
getPathComponents(path) ==
    pathComponents(combinePaths(<<>>, path),
                   getRootLength(combinePaths(<<>>, path)))

getPathFromPathComponents(components) ==
    IF Len(components) = 0 THEN <<>>
    ELSE (IF components[1] = <<>> THEN <<>>
          ELSE ensureTrailingDirectorySeparator(components[1]))
         \o Join(Tail(components))

\* The loop of reducePathComponents from index i (counted from 1 here) on.
RECURSIVE ReduceFrom(_, _, _)
ReduceFrom(components, i, reduced) ==
    IF i > Len(components) THEN reduced
    ELSE IF components[i] = <<>> \/ components[i] = <<".">>
    THEN ReduceFrom(components, i + 1, reduced)
    ELSE IF /\ components[i] = <<".", ".">>
            /\ Len(reduced) > 1
            /\ reduced[Len(reduced)] # <<".", ".">>
    THEN ReduceFrom(components, i + 1, SubSeq(reduced, 1, Len(reduced) - 1))
    ELSE IF /\ components[i] = <<".", ".">>
            /\ Len(reduced) <= 1
            /\ reduced[1] # <<>>
    THEN ReduceFrom(components, i + 1, reduced)
    ELSE ReduceFrom(components, i + 1, Append(reduced, components[i]))

reducePathComponents(components) ==
    IF Len(components) < 1 THEN <<>>
    ELSE ReduceFrom(components, 2, <<components[1]>>)

normalizePath(path) ==
    LET normalized == getPathFromPathComponents(
                          reducePathComponents(
                              getPathComponents(normalizeSlashes(path))))
    IN  IF normalized # <<>> /\ hasTrailingDirectorySeparator(normalizeSlashes(path))
        THEN ensureTrailingDirectorySeparator(normalized)
        ELSE normalized

\* path.lastIndexOf(ch), -1 when there is none.
LastIndexOf(path, ch) ==
    LET hits == {i \in 0..(Len(path) - 1) : path[i + 1] = ch}
    IN  IF hits = {} THEN -1 ELSE CHOOSE i \in hits : \A j \in hits : i >= j

removeTrailingDirectorySeparator(path) ==
    IF hasTrailingDirectorySeparator(path)
    THEN SubSeq(path, 1, Len(path) - 1)
    ELSE path

\* path.slice(0, end)
SliceTo(path, end) == SubSeq(path, 1, IF end < Len(path) THEN end ELSE Len(path))

Max(a, b) == IF a >= b THEN a ELSE b

\* getDirectoryPath that keeps a trailing separator: the parent of "a/" is
\* "a/" again.
getDirectoryPath_KeepsTrailingSeparator(path) ==
    IF getRootLength(normalizeSlashes(path)) = Len(path)
    THEN normalizeSlashes(path)
    ELSE SliceTo(normalizeSlashes(path),
                 Max(getRootLength(normalizeSlashes(path)),
                     LastIndexOf(normalizeSlashes(path), directorySeparator)
                     + 1))

getDirectoryPath(path) ==
    IF getRootLength(normalizeSlashes(path)) = Len(path)
    THEN normalizeSlashes(path)
    ELSE SliceTo(removeTrailingDirectorySeparator(normalizeSlashes(path)),
                 Max(getRootLength(normalizeSlashes(path)),
                     LastIndexOf(removeTrailingDirectorySeparator(
                                     normalizeSlashes(path)),
                                 directorySeparator)))

---------------------------------------------------------------------------
(* The file registry asked for one file under two spellings of its path:   *)
(* as given, and normalized.                                               *)
PathChars == {directorySeparator, altDirectorySeparator, ".", ":", "a"}

\* The names a source file can have: a file has a name, and so has the file
\* its normalized name denotes.
Paths ==
    {p \in SeqsUpTo(PathChars, MaxPathLen) : p # <<>> /\ normalizePath(p) # <<>>}

InitRegistry ==
    /\ pc = "registry"
    /\ clear = FALSE
    /\ sourceFiles \in {<<p>> : p \in Paths}
    /\ libRefs = <<>>
    /\ diagnostics = <<>>
    /\ failAt = {}
    /\ sdb = StoreOpen(NewStore(EmptyGraph)).st
    /\ fileIds = <<>>
    /\ lookups = <<>>
    /\ derived = <<>>
    /\ fileIndex = 1
    /\ threw = FALSE
    /\ console = <<>>
    /\ InitFold
    /\ InitNoVisit
    /\ InitNoPath
    /\ InitNoCommand

\* getFileId for the file named as given.
LookupPath ==
    /\ pc = "registry" /\ fileIndex = 1
    /\ Becomes(getFileId(Env, sourceFiles[1]).e)
    /\ fileIndex' = 2
    /\ UNCHANGED <<pc, Inputs, foldVars, visitVars, cmdVars,
                   pathVars>>

\* getFileId for the file named by the normalized path.
LookupNormalized ==
    /\ pc = "registry" /\ fileIndex = 2
    /\ Becomes(getFileId(Env, normalizePath(sourceFiles[1])).e)
    /\ fileIndex' = 3
    /\ UNCHANGED <<pc, Inputs, foldVars, visitVars, cmdVars,
                   pathVars>>

NextRegistry == LookupPath \/ LookupNormalized

SpecRegistry == InitRegistry /\ [][NextRegistry]_vars

---------------------------------------------------------------------------
(* The path functions called on one path: normalizePath, and again on its  *)
(* result; forEachAncestorDirectory with a callback that returns           *)
(* undefined.                                                              *)
InitPath ==
    /\ InitIdleSession
    /\ InitFold
    /\ InitNoVisit
    /\ InitNoCommand
    /\ directory \in SeqsUpTo(PathChars, MaxDirLen)
    /\ ancestors = <<>>
    /\ normalizations = <<>>
    /\ apc = "start"

PathUnchanged == UNCHANGED <<sessionVars, foldVars, visitVars, cmdVars>>

\* normalizePath(path)
Normalize ==
    /\ apc = "start"
    /\ normalizations' = <<normalizePath(directory)>>
    /\ apc' = "normalized"
    /\ UNCHANGED <<directory, ancestors>>
    /\ PathUnchanged

\* normalizePath(normalizePath(path))
NormalizeAgain ==
    /\ apc = "normalized"
    /\ normalizations' =
          Append(normalizations, normalizePath(normalizations[1]))
    /\ apc' = "renormalized"
    /\ UNCHANGED <<directory, ancestors>>
    /\ PathUnchanged

\* const result = callback(directory), which is undefined.
CallCallback ==
    /\ apc \in {"start", "while"}
    /\ ancestors' = Append(ancestors, directory)
    /\ apc' = "called"
    /\ UNCHANGED <<directory, normalizations>>
    /\ PathUnchanged

\* parentPath !== directory: directory = parentPath
StepToParent ==
    /\ apc = "called"
    /\ getDirectoryPath(directory) # directory
    /\ directory' = getDirectoryPath(directory)
    /\ apc' = "while"
    /\ UNCHANGED <<ancestors, normalizations>>
    /\ PathUnchanged

\* parentPath === directory: return undefined
ReturnUndefined ==
    /\ apc = "called"
    /\ getDirectoryPath(directory) = directory
    /\ apc' = "returned"
    /\ UNCHANGED <<directory, ancestors, normalizations>>
    /\ PathUnchanged

forEachAncestorDirectory == CallCallback \/ StepToParent \/ ReturnUndefined

NextPath == Normalize \/ NormalizeAgain \/ forEachAncestorDirectory

SpecPath == InitPath /\ [][NextPath]_vars

\* The loop of forEachAncestorDirectory is synchronous: its next statement
\* is executed.
SpecPathLive == SpecPath /\ WF_vars(forEachAncestorDirectory)

\* The components of a path after its root.
ComponentsAfterRoot(path) ==
    Split(SubSeq(removeTrailingDirectorySeparator(path),
                 getRootLength(path) + 1,
                 Len(removeTrailingDirectorySeparator(path))))

\* C29: normalizing a normalized path gives the same path, and a normalized
\* path has no backslash and, after its root, no empty component and no
\* "." component.
C29_NormalizeIdempotent ==
    apc = "renormalized" =>
        /\ normalizations[2] = normalizations[1]
        /\ \A i \in DOMAIN normalizations[1] :
              normalizations[1][i] # altDirectorySeparator
        /\ Len(normalizations[1]) > getRootLength(normalizations[1]) =>
              \A c \in DOMAIN ComponentsAfterRoot(normalizations[1]) :
                  /\ ComponentsAfterRoot(normalizations[1])[c] # <<>>
                  /\ ComponentsAfterRoot(normalizations[1])[c] # <<".">>

\* C30: the callback is called with a chain of paths, each the directory
\* of the one before and none twice; the loop returns, and when it has
\* returned the last path of the chain is its own directory and is a root
\* or the empty path.
C30_AncestorsTerminate ==
    /\ [](/\ \A i, j \in DOMAIN ancestors :
                i # j => ancestors[i] # ancestors[j]
          /\ \A i \in DOMAIN ancestors :
                i > 1 => ancestors[i] = getDirectoryPath(ancestors[i - 1])
          /\ apc = "returned" =>
                /\ directory = ancestors[Len(ancestors)]
                /\ getDirectoryPath(directory) = directory
                /\ getRootLength(directory) = Len(directory))
    /\ (apc = "called") ~> (apc = "returned")

\* C30 witness: the loop has returned after the callback was called for a
\* path under a root, its directories and the root.
C30_Witness ==
    /\ apc = "returned"
    /\ Len(ancestors) >= 3
    /\ directory # <<>>


\* C20: looking up a path and looking up the normalized path return the
\* same file id, and leave one file entry in the store.
C20_NormalizedKey ==
    fileIndex = 3 =>
        /\ lookups[1].id = lookups[2].id
        /\ Cardinality(sdb.content.files) = 1

---------------------------------------------------------------------------
(* Properties of the file registry against a store whose calls may fail.   *)
RangeOps ==
    {"recordSymbolLocation", "recordSymbolScopeLocation",
     "recordReferenceLocation", "recordError"}

\* C21: when recordFile or recordFileLanguage has failed, the lookup has
\* ended with an error; no lookup returns the invalid id 0, the memo map
\* never holds it, and no range is written with it as its file.
C21_RegistryFailureFatal ==
    /\ \A i \in CallsOf("recordFile") \cup CallsOf("recordFileLanguage") :
           ~Calls[i].ok => threw
    /\ \A i \in DOMAIN lookups : lookups[i].id # 0
    /\ \A f \in DOMAIN fileIds : fileIds[f] # 0
    /\ \A i \in DOMAIN Calls :
           Calls[i].op \in RangeOps => Calls[i].arg[1] # 0

---------------------------------------------------------------------------
(* The command line: IndexFileAction and IndexProjectAction of actions.ts. *)
(* The parser of the command line (@microsoft/ts-command-line) is not part *)
(* of the repository: a defined parameter holds the value given on the     *)
(* command line, its default value when none is given and it has one, and  *)
(* false for a flag that is absent.                                        *)
NotGiven == "undefined"

\* A field that was never assigned, and a parameter object with its value.
Undefined == [defined |-> FALSE]

Parameter(value) == [defined |-> TRUE, value |-> value]

defineStringParameter(given, defaultValue) ==
    Parameter(IF given = NotGiven THEN defaultValue ELSE given)

defineFlagParameter(given) == Parameter(given)

\* The fields of IndexFileAction after the constructor and
\* onDefineParameters: _verbose is declared and never assigned.
IndexFileAction(c) ==
    [databaseFilePath |->
         defineStringParameter(c.databaseFilePath, "database.srctrldb"),
     path |-> defineStringParameter(c.path, NotGiven),
     clear |-> defineFlagParameter(c.clear),
     verbose |-> Undefined]

\* The fields of IndexProjectAction, likewise.
IndexProjectAction(c) ==
    [databaseFilePath |->
         defineStringParameter(c.databaseFilePath, "database.srctrldb"),
     path |-> defineStringParameter(c.path, NotGiven),
     clear |-> defineFlagParameter(c.clear),
     verbose |-> Undefined]

\* onExecute of either action: the three arguments are evaluated, then
\* Indexing.IndexFile / Indexing.IndexProject is called with them.  Reading
\* .value of an undefined field throws a TypeError; the promise onExecute
\* returns is rejected and nothing is called.
onExecute(this, callee) ==
    IF this.databaseFilePath.defined /\ this.path.defined /\ this.verbose.defined
    THEN /\ cpc' = callee
         /\ handed' = <<this.databaseFilePath.value, this.path.value,
                        this.verbose.value>>
    ELSE /\ cpc' = "rejected"
         /\ handed' = <<>>

CommandLines ==
    [action : {"file", "project"},
     databaseFilePath : {NotGiven, "a.srctrldb", "b.srctrldb"},
     path : {NotGiven, "a.ts", "proj"},
     clear : BOOLEAN,
     verbose : BOOLEAN]

\* --source-file-path is required.
InitAction ==
    /\ InitIdleSession
    /\ InitFold
    /\ InitNoVisit
    /\ InitNoPath
    /\ cmd \in {c \in CommandLines : c.action = "file" => c.path # NotGiven}
    /\ cpc = "onExecute"
    /\ handed = <<>>
    /\ stderr = <<>>
    /\ exitStatus = ""

ExecuteIndexFile ==
    /\ cpc = "onExecute" /\ cmd.action = "file"
    /\ onExecute(IndexFileAction(cmd), "IndexFile")
    /\ UNCHANGED <<cmd, stderr, exitStatus, sessionVars, foldVars, visitVars,
                   pathVars>>

ExecuteIndexProject ==
    /\ cpc = "onExecute" /\ cmd.action = "project"
    /\ onExecute(IndexProjectAction(cmd), "IndexProject")
    /\ UNCHANGED <<cmd, stderr, exitStatus, sessionVars, foldVars, visitVars,
                   pathVars>>

NextAction == ExecuteIndexFile \/ ExecuteIndexProject

SpecAction == InitAction /\ [][NextAction]_vars

\* C22: when either action has executed, Indexing.IndexFile or
\* Indexing.IndexProject was called with the --database-file-path value (the
\* default name when it is not given), the path, and the value of the
\* --clear flag, whatever --verbose is.
C22_ClearFlagHandedOn ==
    cpc # "onExecute" =>
        /\ cpc = (IF cmd.action = "file" THEN "IndexFile" ELSE "IndexProject")
        /\ handed = <<IF cmd.databaseFilePath = NotGiven
                      THEN "database.srctrldb"
                      ELSE cmd.databaseFilePath,
                      cmd.path, cmd.clear>>

---------------------------------------------------------------------------
(* Indexing.IndexProject of src/src/indexing_logic.ts: the configuration   *)
(* file is resolved and parsed, then PerformIndexing is called.  The file  *)
(* system and the parser of configuration files belong to the front-end:   *)
(* cmd says which directories and files exist, whether a search from the   *)
(* current directory finds a configuration file, and how parsing ends.     *)
(* ts.sys.exit ends the process.                                           *)
TsConfig == <<"t", "s", "c", "o", "n", "f", "i", "g", ".", "j", "s", "o", "n">>

CurrentDirectory == <<"/", "w">>

DirectoryP == <<"p">>
FileC == <<"c">>

\* The state of the command after a step: where it is, what it hands on,
\* what it has printed, and the status it has exited with.
Step(at, args, lines, status) ==
    [cpc |-> at, handed |-> args, stderr |-> lines, exitStatus |-> status]

\* console.error(line); return ts.sys.exit(DiagnosticsPresent_OutputsSkipped)
ExitWith(line) ==
    Step("exited", <<>>, Append(stderr, line),
         "DiagnosticsPresent_OutputsSkipped")

\* ts.findConfigFile(searchPath, ts.sys.fileExists)
findConfigFile(c, searchPath) ==
    IF c.configFound
    THEN [defined |-> TRUE, value |-> combinePaths(searchPath, TsConfig)]
    ELSE [defined |-> FALSE, value |-> <<>>]

\* IndexProject up to the call of parseConfigFile.
Resolve(c) ==
    IF ~c.projectPath.defined
    THEN IF ~findConfigFile(c, normalizePath(CurrentDirectory)).defined
         THEN ExitWith("Cannot find a tsconfig.json file at the specified directory: ")
         ELSE Step("parseConfigFile",
                   <<findConfigFile(c, normalizePath(CurrentDirectory)).value>>,
                   stderr, "")
    ELSE IF \/ normalizePath(c.projectPath.value) = <<>>
            \/ normalizePath(c.projectPath.value) \in c.directories
    THEN IF combinePaths(normalizePath(c.projectPath.value), TsConfig)
               \notin c.files
         THEN ExitWith("Cannot find a tsconfig.json file at the specified directory: ")
         ELSE Step("parseConfigFile",
                   <<combinePaths(normalizePath(c.projectPath.value), TsConfig)>>,
                   stderr, "")
    ELSE IF normalizePath(c.projectPath.value) \notin c.files
    THEN ExitWith("The specified path does not exist: ")
    ELSE Step("parseConfigFile", <<normalizePath(c.projectPath.value)>>,
              stderr, "")

\* parseConfigFile and the test of config.errors, without the exit on
\* errors: the diagnostics are printed and PerformIndexing is called.
Parse_NoExitOnErrors(c) ==
    IF c.parse = "unrecoverable"
    THEN ExitWith("unrecoverable diagnostic")
    ELSE IF c.parse = "errors"
    THEN Step("PerformIndexing", <<c.databaseFilePath, handed[1], c.clear>>,
              Append(stderr, "config diagnostic"), "")
    ELSE Step("PerformIndexing", <<c.databaseFilePath, handed[1], c.clear>>,
              stderr, "")

\* parseConfigFile (with reportUnrecoverableDiagnostic as the parser's
\* callback) and the test of config.errors.
Parse(c) ==
    IF c.parse = "unrecoverable"
    THEN ExitWith("unrecoverable diagnostic")
    ELSE IF c.parse = "errors"
    THEN ExitWith("config diagnostic")
    ELSE Step("PerformIndexing", <<c.databaseFilePath, handed[1], c.clear>>,
              stderr, "")

CommandBecomes(step) ==
    /\ cpc' = step.cpc
    /\ handed' = step.handed
    /\ stderr' = step.stderr
    /\ exitStatus' = step.exitStatus

ProjectRuns ==
    [databaseFilePath : {"a.srctrldb"},
     projectPath : {[defined |-> FALSE, value |-> <<>>],
                    [defined |-> TRUE, value |-> <<".">>],
                    [defined |-> TRUE, value |-> <<".", "\\", "p">>],
                    [defined |-> TRUE, value |-> <<".", "/", "c">>]},
     clear : BOOLEAN,
     directories : SUBSET {DirectoryP},
     files : SUBSET {TsConfig, DirectoryP \o <<"/">> \o TsConfig, FileC},
     configFound : BOOLEAN,
     parse : {"ok", "errors", "unrecoverable"}]

InitProject ==
    /\ InitIdleSession
    /\ InitFold
    /\ InitNoVisit
    /\ InitNoPath
    /\ cmd \in ProjectRuns
    /\ cpc = "IndexProject"
    /\ handed = <<>>
    /\ stderr = <<>>
    /\ exitStatus = ""

ResolveConfig ==
    /\ cpc = "IndexProject"
    /\ CommandBecomes(Resolve(cmd))
    /\ UNCHANGED <<cmd, sessionVars, foldVars, visitVars, pathVars>>

ParseConfig ==
    /\ cpc = "parseConfigFile"
    /\ CommandBecomes(Parse(cmd))
    /\ UNCHANGED <<cmd, sessionVars, foldVars, visitVars, pathVars>>

\* PerformIndexing: the indexer is constructed and the store is opened.
StartIndexing ==
    /\ cpc = "PerformIndexing"
    /\ cpc' = "indexing"
    /\ sdb' = StoreOpen(sdb).st
    /\ UNCHANGED <<cmd, handed, stderr, exitStatus, pc, Inputs, fileIds,
                   lookups, derived, fileIndex, threw, console, foldVars,
                   visitVars, pathVars>>

NextProject == ResolveConfig \/ ParseConfig \/ StartIndexing

SpecProject == InitProject /\ [][NextProject]_vars

---------------------------------------------------------------------------
(* Properties of IndexProject.                                             *)
\* What the project path names, as the file system has it.
NamedPath == normalizePath(cmd.projectPath.value)

NamesDirectory == NamedPath = <<>> \/ NamedPath \in cmd.directories

\* No configuration file is found: by the search from the current
\* directory, or in the directory named.
NoConfigFound ==
    IF ~cmd.projectPath.defined THEN ~cmd.configFound
    ELSE NamesDirectory /\ combinePaths(NamedPath, TsConfig) \notin cmd.files

\* The path given names neither a directory nor a file.
PathMissing ==
    cmd.projectPath.defined /\ ~NamesDirectory /\ NamedPath \notin cmd.files

IndexerConstructed == cpc \in {"PerformIndexing", "indexing"}

\* C23: when no configuration file is found, the given path does not exist,
\* or parsing the configuration gives diagnostics, IndexProject has printed
\* to the error stream and exited with DiagnosticsPresent_OutputsSkipped
\* once it has ended, and at no time is the indexer constructed or a store
\* call made; the store is opened only with a configuration that was
\* resolved and parsed without errors.
C23_ConfigResolutionFatal ==
    /\ (NoConfigFound \/ PathMissing \/ cmd.parse # "ok") =>
           /\ ~IndexerConstructed
           /\ sdb.calls = <<>>
           /\ cpc \in {"exited", "indexing"} =>
                  /\ cpc = "exited"
                  /\ exitStatus = "DiagnosticsPresent_OutputsSkipped"
                  /\ stderr # <<>>
    /\ sdb.calls # <<>> =>
           /\ ~NoConfigFound /\ ~PathMissing /\ cmd.parse = "ok"
           /\ exitStatus = ""

\* C23 witness: the configuration in the directory named was found, its
\* parsing gave diagnostics, and IndexProject has exited after printing.
C23_Witness ==
    /\ cmd.projectPath.defined /\ NamedPath = DirectoryP
    /\ ~NoConfigFound
    /\ cmd.parse = "errors"
    /\ cpc = "exited"
    /\ stderr # <<>>
    /\ sdb.calls = <<>>

---------------------------------------------------------------------------
(* The main pass of the builder-based indexer: PerformIndexing hands       *)
(* SourcetrailDB.open a callback that records the diagnostics and then,    *)
(* for each source file in the order of program.getSourceFiles(),          *)
(* registers the file, handles its library references and traverses its    *)
(* tree.  The writer is the record                                         *)
(*   w = [fileIds, built, usages, trace, console, threw]                   *)
(* of what has been created through it; `trace` is the order of the calls. *)
PassWriter ==
    [fileIds |-> fileIds, built |-> built, usages |-> usages,
     trace |-> trace, console |-> console, threw |-> threw]

PassBecomes(w) ==
    /\ fileIds' = w.fileIds
    /\ built' = w.built
    /\ usages' = w.usages
    /\ trace' = w.trace
    /\ console' = w.console
    /\ threw' = w.threw

Called(w, event) == [w EXCEPT !.trace = Append(@, event)]

\* Indexing.addOrGetFile(writer, file): the builder of a file is made once
\* and stands for the file; reading fileName of an undefined file throws.
addOrGetFile(w, file) ==
    IF file = NoFile THEN [w EXCEPT !.threw = TRUE]
    ELSE IF file \in DOMAIN w.fileIds THEN w
    ELSE [w EXCEPT !.fileIds = (file :> file) @@ @]

\* The body of the forEach of the builder-based addDiagnostics.
DiagnosticWith(w, d) ==
    IF d.file = NoFile
    THEN [w EXCEPT !.console =
             Append(@, flattenDiagnosticMessageText(d.messageText, "\n"))]
    ELSE
    Bind(addOrGetFile(w, d.file), LAMBDA f :
        Called(f, Event("recordError", 0,
            [message |-> flattenDiagnosticMessageText(d.messageText, "\n"),
             range |-> <<f.fileIds[d.file],
                         d.start.line + 1, d.start.character + 1,
                         d.end.line + 1, d.end.character + 1>>])))

RECURSIVE DiagnosticWithLoop(_, _, _)
DiagnosticWithLoop(w, ds, k) ==
    IF k > Len(ds) THEN w
    ELSE DiagnosticWithLoop(DiagnosticWith(w, ds[k]), ds, k + 1)

\* Indexing.addDiagnostics(writer).
addDiagnosticsWith(w) == DiagnosticWithLoop(w, diagnostics, 1)

\* writer.createSymbol(sep, names).explicitly().ofType(kind).withScope(scope)
withScope(w, sep, names, kind, scope) ==
    [w EXCEPT !.built = Append(@,
        [node |-> 0, sep |-> sep, names |-> names, definition |-> "EXPLICIT",
         kind |-> kind, location |-> <<>>, signature |-> <<>>,
         scope |-> scope])]

\* The loop of sourceFileToModuleSymbol over filenameParts, from index i.
RECURSIVE PackageSymbols(_, _, _, _, _)
PackageSymbols(w, filenameParts, sf, sfFile, i) ==
    IF i > Len(filenameParts) THEN w
    ELSE IF filenameParts[i] = "node_modules"
    THEN PackageSymbols(
           isReferencedBy(
             withScope(w, "/", Slice2(filenameParts, i), "PACKAGE",
                       nodeToSourceRange([pos |-> FileStart(sf),
                                          end |-> FileEnd(sf)], sfFile)),
             0, Slice2(filenameParts, i), filenameParts, "INCLUDE"),
           filenameParts, sf, sfFile, i + 1)
    ELSE PackageSymbols(w, filenameParts, sf, sfFile, i + 1)

\* Indexing.sourceFileToModuleSymbol(writer, sf, sfFile); the symbol it
\* returns is the one named ModuleName(sf).elems.
sourceFileToModuleSymbol(w, sf, sfFile) ==
    PackageSymbols(
      withScope(w, "/", ModuleName(sf).elems, "MODULE",
                nodeToSourceRange([pos |-> FileStart(sf),
                                   end |-> FileEnd(sf)], sfFile)),
      ModuleName(sf).elems, sf, sfFile, 1)

\* libReferenceToSourceRange(ref, sf, file), for the k-th directive.
libReferenceToSourceRange(k, file) == toSourceRange(file, RefPos(k), RefEnd(k))

\* The body of the forEach of processSourceFile, for the k-th directive of
\* the i-th source file, which resolves to refSourceFile.
ProcessLibReference(w, i, file, k, refSourceFile) ==
    Bind(addOrGetFile(w, refSourceFile), LAMBDA f :
        IF f.threw THEN f
        ELSE
        Bind(sourceFileToModuleSymbol(f, refSourceFile, file), LAMBDA m :
            Called(
              [isReferencedBy(
                 createSymbol(m, 0, "", <<RefName(refSourceFile)>>, "MACRO",
                              libReferenceToSourceRange(k, file), <<>>),
                 0, <<RefName(refSourceFile)>>, ModuleName(refSourceFile).elems,
                 "INCLUDE")
               EXCEPT !.usages[Len(m.usages) + 1] =
                   [node |-> 0, from |-> @.from, to |-> @.to, kind |-> @.kind,
                    location |-> libReferenceToSourceRange(k, file)]],
              Event("libReference", i, k))))

RECURSIVE ProcessLibReferences(_, _, _, _, _)
ProcessLibReferences(w, i, file, refs, k) ==
    IF k > Len(refs) \/ w.threw THEN w
    ELSE ProcessLibReferences(ProcessLibReference(w, i, file, k, refs[k]),
                              i, file, refs, k + 1)

\* Indexing.processSourceFile(writer, file, sf), for the i-th source file.
processSourceFile(w, i, file) ==
    ProcessLibReferences(Called(w, Event("processSourceFile", i, 0)),
                         i, file, libRefs[i], 1)

\* The call the callback of PerformIndexing makes after the call p; after
\* the last call of the forEach body, the first for the next file.
NextCall_VisitBeforeLibraries(p) ==
    CASE p = "addDiagnostics" -> "addOrGetFile"
      [] p = "addOrGetFile" -> "visitTypeNodes"
      [] p = "visitTypeNodes" -> "processSourceFile"
      [] p = "processSourceFile" -> "addOrGetFile"

NextCall(p) ==
    CASE p = "addDiagnostics" -> "addOrGetFile"
      [] p = "addOrGetFile" -> "processSourceFile"
      [] p = "processSourceFile" -> "visitTypeNodes"
      [] p = "visitTypeNodes" -> "addOrGetFile"

\* The file of the call after p.
FileAfter(p) ==
    IF p = "addDiagnostics" THEN 1
    ELSE IF NextCall(p) = "addOrGetFile" THEN fileIndex + 1
    ELSE fileIndex

\* Where the pass is after the call p has returned or thrown.
AfterCall(p, thrown) ==
    IF thrown THEN "aborted"
    ELSE IF FileAfter(p) > Len(sourceFiles) THEN "done"
    ELSE NextCall(p)

\* The syntax tree of a source file.
PassTree(sf) ==
    IF sf = FA
    THEN TreeOf(<<"declare class C { m(): void; p: number; get a(): number; }",
                  "const h = () => 1, k = function () {};",
                  "function f() { var X = 1; }",
                  "declare type T = U;">>, <<>>)
    ELSE TreeOf(<<"interface I { s(): void; q: string; }", "type V = W;">>,
                <<>>)

PassUnchanged ==
    UNCHANGED <<clear, sourceFiles, libRefs, diagnostics, failAt, sdb,
                lookups, derived, foldVars, cmdVars, pathVars>>

\* indexer.addDiagnostics(writer)
PassAddDiagnostics ==
    /\ pc = "addDiagnostics"
    /\ PassBecomes(addDiagnosticsWith(PassWriter))
    /\ pc' = AfterCall(pc, FALSE)
    /\ fileIndex' = FileAfter(pc)
    /\ UNCHANGED <<tree, pending, visited>>
    /\ PassUnchanged

\* const file = indexer.addOrGetFile(writer, sf)
PassAddOrGetFile ==
    /\ pc = "addOrGetFile"
    /\ PassBecomes(Called(addOrGetFile(PassWriter, sourceFiles[fileIndex]),
                          Event("addOrGetFile", fileIndex, 0)))
    /\ pc' = AfterCall(pc, FALSE)
    /\ fileIndex' = FileAfter(pc)
    /\ UNCHANGED <<tree, pending, visited>>
    /\ PassUnchanged

\* indexer.processSourceFile(writer, file, sf)
PassProcessSourceFile ==
    /\ pc = "processSourceFile"
    /\ PassBecomes(processSourceFile(PassWriter, fileIndex, VisitedFile))
    /\ pc' = AfterCall(pc, threw')
    /\ fileIndex' = IF threw' THEN fileIndex ELSE FileAfter(pc)
    /\ UNCHANGED <<tree, pending, visited>>
    /\ PassUnchanged

\* indexer.visitTypeNodes(writer, file, sf): the call for the source file
\* node; the calls for the nodes are the Visit actions.
PassVisitSourceFile ==
    /\ pc = "visitTypeNodes"
    /\ tree' = PassTree(sourceFiles[fileIndex])
    /\ pending' = <<1>>
    /\ visited' = <<>>
    /\ pc' = "visiting"
    /\ UNCHANGED <<fileIds, built, usages, trace, console, threw, fileIndex>>
    /\ PassUnchanged

\* The call for the source file node returns.
PassVisitReturn ==
    /\ pc = "visiting"
    /\ pending = <<>>
    /\ pc' = AfterCall("visitTypeNodes", FALSE)
    /\ fileIndex' = FileAfter("visitTypeNodes")
    /\ UNCHANGED <<tree, pending, visited, fileIds, built, usages, trace,
                   console, threw>>
    /\ PassUnchanged

InitPass ==
    /\ pc = "addDiagnostics"
    /\ clear = FALSE
    /\ sourceFiles \in {<<FA>>, <<FA, FB>>}
    /\ libRefs \in [1..Len(sourceFiles) -> SeqsUpTo(RefTargets, MaxRefs)]
    /\ diagnostics \in SeqsUpTo(DiagnosticKinds, MaxDiags)
    /\ failAt = {}
    /\ sdb = NewStore(EmptyGraph)
    /\ fileIds = <<>>
    /\ lookups = <<>>
    /\ derived = <<>>
    /\ fileIndex = 1
    /\ threw = FALSE
    /\ console = <<>>
    /\ InitFold
    /\ InitNoVisit
    /\ InitNoPath
    /\ InitNoCommand

NextPass ==
    \/ PassAddDiagnostics
    \/ PassAddOrGetFile
    \/ PassProcessSourceFile
    \/ PassVisitSourceFile
    \/ PassVisitReturn
    \/ VisitMember
    \/ VisitProperty
    \/ VisitVariable
    \/ VisitFunction
    \/ VisitFunctionExpression
    \/ VisitClass
    \/ VisitTypeAlias
    \/ VisitOther

SpecPass == InitPass /\ [][NextPass]_vars

---------------------------------------------------------------------------
(* Properties of the main pass.                                            *)
EventsOf(pass, file) ==
    {i \in DOMAIN trace : trace[i].pass = pass /\ trace[i].file = file}

\* The place of a call in the order the specification gives: the
\* diagnostics first, then file by file the registration, the library
\* references and the traversal.
PlaceOf(event) ==
    IF event.pass = "recordError" THEN 0
    ELSE 4 * event.file
         + (CASE event.pass = "addOrGetFile" -> 0
              [] event.pass = "processSourceFile" -> 1
              [] event.pass = "libReference" -> 2
              [] event.pass = "visitTypeNodes" -> 3)

\* C24: in the main pass the calls are made in the order of their places;
\* when the library pass of a file starts every diagnostic has been
\* handled, the file is registered and every file before it is finished;
\* when the traversal of a file starts its library pass is complete; no
\* file is registered or library-processed twice.
C24_PassOrder ==
    /\ \A i, j \in DOMAIN trace :
          i < j => PlaceOf(trace[i]) <= PlaceOf(trace[j])
    /\ \A f \in DOMAIN sourceFiles :
          /\ Cardinality(EventsOf("addOrGetFile", f)) <= 1
          /\ Cardinality(EventsOf("processSourceFile", f)) <= 1
          /\ EventsOf("processSourceFile", f) # {} =>
                /\ Cardinality({i \in DOMAIN trace :
                                   trace[i].pass = "recordError"})
                     = Cardinality(WithFile)
                /\ Len(console) = Cardinality(WithoutFile)
                /\ EventsOf("addOrGetFile", f) # {}
                /\ sourceFiles[f] \in DOMAIN fileIds
                /\ \A g \in 1..(f - 1) : EventsOf("visitTypeNodes", g) # {}
          /\ EventsOf("visitTypeNodes", f) # {} =>
                /\ EventsOf("processSourceFile", f) # {}
                /\ Cardinality(EventsOf("libReference", f)) = Len(libRefs[f])

\* C24 witness: the pass is done for two files, with a recorded
\* diagnostic, a library reference in the first file and both trees
\* traversed.
C24_Witness ==
    /\ pc = "done"
    /\ Len(sourceFiles) = 2
    /\ WithFile # {}
    /\ libRefs[1] # <<>>
    /\ EventsOf("visitTypeNodes", 1) # {}
    /\ EventsOf("visitTypeNodes", 2) # {}

====
